---- MODULE Spec2Model ----
(***************************************************************************)
(* Model of the document chunker of math_rag                               *)
(* (src/chunking/structure_aware_chunker.py, StructureAwareChunker).       *)
(*                                                                         *)
(* Text representation.  A text is a sequence of elements [t, p, i]: t is  *)
(* a token, p and i record where the element came from (page position and  *)
(* token position on that page; 0/0 for separators the chunker inserts).   *)
(* p and i are history annotations: the code never reads them.             *)
(* Every token stands for one fixed string, and a text stands for the      *)
(* plain concatenation of the strings of its tokens:                       *)
(*    "w"    "x"                          a body character                 *)
(*    "W"    "xxxxxx"                     six body characters              *)
(*    "SP"   " "                          a space (whitespace)             *)
(*    "PB"   "\n\n"                       a paragraph break (whitespace)   *)
(*    "EX"   "EXERCISE 3.1:"              exercise header                  *)
(*    "EG"   "Example 1:"                 example header                   *)
(*    "MI"   "Miscellaneous Exercise:"    miscellaneous header             *)
(*    "TH"   "Theorem 1:"                 theorem header                   *)
(*    "DF"   "Definition 1:"              definition header                *)
(*    "SEC"  "3.2 T"                      section header when it starts a  *)
(*                                        line, plain text otherwise       *)
(*    "CH1"  "CHAPTER 1:"    "CH2"  "CHAPTER 2:"    chapter mentions       *)
(*    "FIG"  "Fig 1.1:"      "TAB"  "Table 2.1:"    citations              *)
(* Every non-blank token ends in a character that is neither a digit nor   *)
(* white space, so no regular expression of the chunker matches across a   *)
(* token border except the section pattern, which is modelled as such.     *)
(***************************************************************************)
EXTENDS Integers, Sequences, FiniteSets, TLC

\* ------------------------------------------------------------------------
\* Bounds of the model
\* ------------------------------------------------------------------------
\* size of an input document: tokens, media items and page breaks together
MaxDocLen == 4
\* the same for the documents with media and for those with chapter mentions
MaxLinkDocLen == 5
MaxMetaDocLen == 5
\* number of tokens of a buffer handed to _create_collection_chunk directly
MaxBufLen == 6
\* config['max_tokens'] of the chunker under test (max_chars = max_tokens * 3.5)
max_tokens == 4

\* ------------------------------------------------------------------------
\* Tokens and strings
\* ------------------------------------------------------------------------
None == "None"

\* len() of the string a token stands for
TokLen(t) ==
  CASE t = "w" -> 1
    [] t = "W" -> 6
    [] t = "SP" -> 1
    [] t = "PB" -> 2
    [] t = "EX" -> 13
    [] t = "EG" -> 10
    [] t = "MI" -> 23
    [] t = "TH" -> 10
    [] t = "DF" -> 13
    [] t = "SEC" -> 5
    [] t = "CH1" -> 10
    [] t = "CH2" -> 10
    [] t = "FIG" -> 8
    [] t = "TAB" -> 10
    [] OTHER -> 1

\* number of white-space separated words in the string of a token
TokWords(t) ==
  CASE t \in {"PB", "SP"} -> 0
    [] t \in {"EX", "EG", "MI", "TH", "DF", "SEC", "CH1", "CH2", "FIG", "TAB"} -> 2
    [] OTHER -> 1

El(t, p, i) == [t |-> t, p |-> p, i |-> i]

\* the '\n\n' the chunker inserts when it joins two pieces of text
Sep == El("PB", 0, 0)

\* page['text'] with every element annotated by its origin
PageText(toks, pg) == [k \in 1..Len(toks) |-> El(toks[k], pg, k)]

RECURSIVE TextLen(_)
\* len(text)
TextLen(s) == IF s = <<>> THEN 0 ELSE TokLen(Head(s).t) + TextLen(Tail(s))

\* the tokens that are white space
WS == {"PB", "SP"}

RECURSIVE LStrip(_)
LStrip(s) == IF s # <<>> /\ Head(s).t \in WS THEN LStrip(Tail(s)) ELSE s

RECURSIVE RStrip(_)
RStrip(s) ==
  IF s # <<>> /\ s[Len(s)].t \in WS THEN RStrip(SubSeq(s, 1, Len(s) - 1)) ELSE s

\* str.strip()
Strip(s) == RStrip(LStrip(s))

\* text[a:b] on token positions (1-based, b exclusive)
Slice(s, a, b) == SubSeq(s, a, b - 1)

RECURSIVE SplitParas(_, _)
\* text.split('\n\n'): cur is the paragraph being read
SplitParas(s, cur) ==
  IF s = <<>> THEN <<cur>>
  ELSE IF Head(s).t = "PB" THEN <<cur>> \o SplitParas(Tail(s), <<>>)
  ELSE SplitParas(Tail(s), Append(cur, Head(s)))

Paragraphs(s) == SplitParas(s, <<>>)

RECURSIVE WordCount(_, _)
\* len(text.split()): inWord says whether the previous element ended in a word
WordCount(s, inWord) ==
  IF s = <<>> THEN 0
  ELSE IF Head(s).t \in WS THEN WordCount(Tail(s), FALSE)
  ELSE TokWords(Head(s).t) - (IF inWord THEN 1 ELSE 0) + WordCount(Tail(s), TRUE)

Words(s) == WordCount(s, FALSE)

\* ------------------------------------------------------------------------
\* Input documents
\* ------------------------------------------------------------------------
\* A page is [text, has_num, page_number, images, tables]; has_num says
\* whether the page dict has a 'page_number' key.  An image is
\* [image_id, page_number], a table [table_id, page_number]; the
\* page_number of a media item is the position of the page it is on.
ImageIds == {"fig_1_1", "fig_9"}
TableIds == {"table_2_1"}

EmptyPage(n) ==
  [text |-> <<>>, has_num |-> TRUE, page_number |-> n, images |-> <<>>, tables |-> <<>>]

\* any(x['image_id'] == id for x in images)
HasImage(imgs, id) == \E k \in 1..Len(imgs) : imgs[k].image_id = id

\* any(t.table_id == id for t in tables)
HasTable(tabs, id) == \E k \in 1..Len(tabs) : tabs[k].table_id = id

RECURSIVE ParseDoc(_, _)
\* The page list a stream of symbols describes: "PAGE" starts the next page,
\* "NONUM" removes the page_number key of the page, a media id puts that item
\* on the page (an id is used once in a document), a token extends the text.
ParseDoc(s, ps) ==
  IF s = <<>> THEN ps
  ELSE
    LET x == Head(s)
        n == Len(ps)
        cur == ps[n]
        used == \E k \in 1..n : HasImage(ps[k].images, x) \/ HasTable(ps[k].tables, x)
        img == [image_id |-> x, page_number |-> n]
        tbl == [table_id |-> x, page_number |-> n]
    IN  IF x = "PAGE" THEN ParseDoc(Tail(s), Append(ps, EmptyPage(n + 1)))
        ELSE IF x = "NONUM" THEN ParseDoc(Tail(s), [ps EXCEPT ![n].has_num = FALSE])
        ELSE IF x \in ImageIds THEN
          ParseDoc(Tail(s), IF used THEN ps ELSE [ps EXCEPT ![n].images = Append(cur.images, img)])
        ELSE IF x \in TableIds THEN
          ParseDoc(Tail(s), IF used THEN ps ELSE [ps EXCEPT ![n].tables = Append(cur.tables, tbl)])
        ELSE ParseDoc(Tail(s), [ps EXCEPT ![n].text = Append(cur.text, x)])

\* every document of at most n symbols over the alphabet
Documents(alphabet, n) ==
  { ParseDoc(s, <<EmptyPage(1)>>) : s \in UNION { [1..k -> alphabet] : k \in 0..n } }

\* page.get('page_number', page_idx + 1) of chunk_document
PageNum(ps, k) == IF ps[k].has_num THEN ps[k].page_number ELSE k

\* page.get('page_number', 0) of _chunk_page
ChunkPageNum(page) == IF page.has_num THEN page.page_number ELSE 0

\* ------------------------------------------------------------------------
\* Headers
\* ------------------------------------------------------------------------
RECURSIVE LineStart(_, _)
\* whether only white space lies between a line start and element k (^\s*)
LineStart(toks, k) ==
  IF k = 1 THEN TRUE
  ELSE IF toks[k - 1] = "PB" THEN TRUE
  ELSE IF toks[k - 1] = "SP" THEN LineStart(toks, k - 1)
  ELSE FALSE

\* the header family matching at token k of a page text, "" if none
HeaderType(toks, k) ==
  CASE toks[k] = "EX" -> "exercise"
    [] toks[k] = "EG" -> "example"
    [] toks[k] = "MI" -> "miscellaneous"
    [] toks[k] = "TH" -> "theorem"
    [] toks[k] = "DF" -> "definition"
    [] toks[k] = "SEC" /\ LineStart(toks, k) -> "section"
    [] OTHER -> ""

\* match.group(1) of an exercise or example header
HeaderNumber(tok) == IF tok = "EX" THEN "3.1" ELSE IF tok = "EG" THEN "1" ELSE None

\* the positions of the headers of a page, sorted
Headers(toks) ==
  SelectSeq([k \in 1..Len(toks) |-> k], LAMBDA k : HeaderType(toks, k) # "")

RECURSIVE FirstChapter(_)
\* re.search(r'CHAPTER\s+(\d+)', page_text): 0 stands for no match
FirstChapter(toks) ==
  IF toks = <<>> THEN 0
  ELSE IF Head(toks) = "CH1" THEN 1
  ELSE IF Head(toks) = "CH2" THEN 2
  ELSE FirstChapter(Tail(toks))

\* ------------------------------------------------------------------------
\* Chunks
\* ------------------------------------------------------------------------
\* A chunk is [content_type, text, header, page_number, chapter_number,
\* images, tables, example_number, exercise_number, cid].  text_content is
\* the synthetic continuation header of part number `header` (when header >
\* 0) followed by text.  cid is a history annotation: the collection the
\* chunk was made from, 0 for a standalone chunk.

\* whether the string of token tok, found after element k - 1 of text, holds
\* the word `\btok\b`: the character before it must not be a word character
WordAt(text, k) == k = 1 \/ text[k - 1].t \notin {"w", "W", "SEC"}

HasWord(text, toks) == \E k \in 1..Len(text) : text[k].t \in toks /\ WordAt(text, k)

\* MathDetector.detect_content_type followed by _map_content_type
DetectContentType(text) ==
  IF HasWord(text, {"DF"}) THEN "definition"
  ELSE IF HasWord(text, {"TH"}) THEN "theorem"
  ELSE IF HasWord(text, {"EG"}) THEN "example"
  ELSE IF HasWord(text, {"EX"}) \/ (\E k \in 1..Len(text) : text[k].t = "MI") THEN "exercise"
  ELSE "text"

\* _create_simple_chunk: the list holding the chunk, empty for None
CreateSimpleChunk(text, chapter, page_num) ==
  IF Strip(text) = <<>> THEN <<>>
  ELSE << [content_type |-> DetectContentType(text),
           text |-> text,
           header |-> 0,
           page_number |-> page_num,
           chapter_number |-> chapter,
           images |-> <<>>,
           tables |-> <<>>,
           example_number |-> None,
           exercise_number |-> None,
           cid |-> 0] >>

\* f"fig_{ref_id}" in img['image_id'] for the reference of a "Fig 1.1:" token
FigMatches(tok, image_id) == tok = "FIG" /\ image_id \in {"fig_1_1", "fig_1_10"}

\* f"table_{ref_id}" in tbl['table_id'] for the reference of a "Table 2.1:" token
TableMatches(tok, table_id) == tok = "TAB" /\ table_id \in {"table_2_1", "table_2_10"}

RECURSIVE LinkImages(_, _, _)
\* the inner loop over page_images for one figure reference
LinkImages(tok, imgs, linked) ==
  IF imgs = <<>> THEN linked
  ELSE LET img == Head(imgs) IN
    LinkImages(tok, Tail(imgs),
      IF FigMatches(tok, img.image_id) /\ ~HasImage(linked, img.image_id)
      THEN Append(linked, img) ELSE linked)

RECURSIVE LinkTables(_, _, _)
\* the inner loop over page_tables for one table reference
LinkTables(tok, tabs, linked) ==
  IF tabs = <<>> THEN linked
  ELSE LET tbl == Head(tabs) IN
    LinkTables(tok, Tail(tabs),
      IF TableMatches(tok, tbl.table_id) /\ ~HasTable(linked, tbl.table_id)
      THEN Append(linked, tbl) ELSE linked)

RECURSIVE LinkAll(_, _, _, _)
\* the loops over fig_refs and table_refs, in text order
LinkAll(text, imgs, tabs, chunk) ==
  IF text = <<>> THEN chunk
  ELSE LinkAll(Tail(text), imgs, tabs,
         [chunk EXCEPT !.images = LinkImages(Head(text).t, imgs, @),
                       !.tables = LinkTables(Head(text).t, tabs, @)])

\* _link_content_to_chunk
LinkContentToChunk(chunk, page_images, page_tables) ==
  IF page_images = <<>> /\ page_tables = <<>> THEN chunk
  ELSE LinkAll(chunk.text, page_images, page_tables, chunk)

\* ------------------------------------------------------------------------
\* _create_collection_chunk
\* ------------------------------------------------------------------------
\* A buffer is [text, number, start_page, type, images, cid] (cid: history).

\* len() of the strings the labels of a buffer stand for
StrLen(x) ==
  CASE x = "1" -> 1
    [] x = "3.1" -> 3
    [] x = "Miscellaneous" -> 13
    [] x = "example" -> 7
    [] x = "exercise" -> 8
    [] OTHER -> 0

\* the token whose string begins with f"{type} {number}" (case-insensitively)
LabelToken(buffer) ==
  IF buffer.type = "example" /\ buffer.number = "1" THEN "EG"
  ELSE IF buffer.type = "exercise" /\ buffer.number = "3.1" THEN "EX"
  ELSE "-"

\* f"{buffer['type']} {buffer['number']}".lower() in final_text.lower()[:50]
LabelInHead(buffer, text) ==
  \E k \in 1..Len(text) :
    /\ text[k].t = LabelToken(buffer)
    /\ TextLen(SubSeq(text, 1, k - 1)) + StrLen(buffer.type) + 1 + StrLen(buffer.number) <= 50

\* len(f"[{type.capitalize()} {number} (Part {n})]\n\n"), n < 10
HeaderLen(type, number) == StrLen(type) + StrLen(number) + 14

\* len(chunk.text_content)
ChunkLen(c) ==
  (IF c.header > 0
   THEN HeaderLen(IF c.exercise_number # None THEN "exercise" ELSE "example",
                  IF c.exercise_number # None THEN c.exercise_number ELSE c.example_number)
   ELSE 0) + TextLen(c.text)

\* total_len <= max_chars, with max_chars = self.max_tokens * 3.5
WithinMaxChars(n) == 2 * n <= 7 * max_tokens

\* the ContentChunk built from a piece of the buffer, linked to the media
CollectionChunk(buffer, chapter, text, header, page_images, page_tables) ==
  LinkContentToChunk(
    [content_type |-> IF buffer.type = "exercise" THEN "exercise" ELSE "example",
     text |-> text,
     header |-> header,
     page_number |-> buffer.start_page,
     chapter_number |-> chapter,
     images |-> <<>>,
     tables |-> <<>>,
     example_number |-> IF buffer.type = "example" THEN buffer.number ELSE None,
     exercise_number |-> IF buffer.type = "exercise" THEN buffer.number ELSE None,
     cid |-> buffer.cid],
    page_images, page_tables)

\* a part of a split collection: parts after the first get the continuation
\* header unless the label occurs in their first 50 characters
Part(buffer, chapter, text, part_num, page_images, page_tables) ==
  CollectionChunk(buffer, chapter, text,
                  IF part_num > 1 /\ ~LabelInHead(buffer, text) THEN part_num ELSE 0,
                  page_images, page_tables)

\* JoinPara without the blank line between the paragraphs
JoinPara_NoSeparator(cur, para) == cur \o para

\* current_chunk_text += '\n\n' + para if current_chunk_text else para
JoinPara(cur, para) == IF cur # <<>> THEN cur \o <<Sep>> \o para ELSE para

RECURSIVE SplitLoop_NoFinalPart(_, _, _, _, _, _, _)
\* SplitLoop without the part that follows the loop: what is left in
\* current_chunk_text when the paragraphs run out is never emitted
SplitLoop_NoFinalPart(paras, cur, part_num, out, buffer, chapter, media) ==
  IF paras = <<>> THEN out
  ELSE
    LET para == Head(paras) IN
    IF Strip(para) = <<>> THEN
      SplitLoop_NoFinalPart(Tail(paras), cur, part_num, out, buffer, chapter, media)
    ELSE IF ~WithinMaxChars(TextLen(cur) + TextLen(para)) /\ cur # <<>> THEN
      SplitLoop_NoFinalPart(Tail(paras), para, part_num + 1,
                Append(out, Part(buffer, chapter, cur, part_num, media[1], media[2])),
                buffer, chapter, media)
    ELSE
      SplitLoop_NoFinalPart(Tail(paras), JoinPara(cur, para), part_num, out, buffer,
                            chapter, media)

RECURSIVE SplitLoop(_, _, _, _, _, _, _)
\* the loop over the paragraphs and the final part
SplitLoop(paras, cur, part_num, out, buffer, chapter, media) ==
  IF paras = <<>> THEN
    IF Strip(cur) # <<>>
    THEN Append(out, Part(buffer, chapter, cur, part_num, media[1], media[2]))
    ELSE out
  ELSE
    LET para == Head(paras) IN
    IF Strip(para) = <<>> THEN
      SplitLoop(Tail(paras), cur, part_num, out, buffer, chapter, media)
    ELSE IF ~WithinMaxChars(TextLen(cur) + TextLen(para)) /\ cur # <<>> THEN
      SplitLoop(Tail(paras), para, part_num + 1,
                Append(out, Part(buffer, chapter, cur, part_num, media[1], media[2])),
                buffer, chapter, media)
    ELSE
      SplitLoop(Tail(paras), JoinPara(cur, para), part_num, out, buffer, chapter, media)

\* the ids of the images linked to some chunk
LinkedImageIds(cs) ==
  UNION { { cs[k].images[j].image_id : j \in 1..Len(cs[k].images) } : k \in 1..Len(cs) }

\* the rescue of one orphan: appended to every chunk on the orphan's page
RescueOrphan(cs, orphan) ==
  [k \in 1..Len(cs) |->
     IF cs[k].page_number = orphan.page_number /\ ~HasImage(cs[k].images, orphan.image_id)
     THEN [cs[k] EXCEPT !.images = Append(@, orphan)]
     ELSE cs[k]]

RECURSIVE RescueAll(_, _)
RescueAll(cs, orphans) ==
  IF orphans = <<>> THEN cs ELSE RescueAll(RescueOrphan(cs, Head(orphans)), Tail(orphans))

\* OrphanRescue that takes every collected image for an orphan
OrphanRescue_EveryImage(cs, page_images) == RescueAll(cs, page_images)

\* the orphan rescue that ends the split path
OrphanRescue(cs, page_images) ==
  LET linked == LinkedImageIds(cs)
      orphans == SelectSeq(page_images, LAMBDA img : img.image_id \notin linked)
  IN  RescueAll(cs, orphans)

\* the path of _create_collection_chunk for a buffer over max_chars
SplitCollection(buffer, chapter, page_images, page_tables) ==
  OrphanRescue(
    SplitLoop(Paragraphs(buffer.text), <<>>, 1, <<>>, buffer, chapter,
              <<page_images, page_tables>>),
    page_images)

\* _create_collection_chunk: the list of chunks made from the buffer
CreateCollectionChunk(buffer, chapter, page_images, page_tables) ==
  IF Strip(buffer.text) = <<>> THEN <<>>
  ELSE IF WithinMaxChars(TextLen(buffer.text))
  THEN << CollectionChunk(buffer, chapter, buffer.text, 0, page_images, page_tables) >>
  ELSE SplitCollection(buffer, chapter, page_images, page_tables)

\* ------------------------------------------------------------------------
\* _chunk_page
\* ------------------------------------------------------------------------
\* current_tokens + para_tokens > self.max_tokens, each being a word count
\* times 1.3 (max_tokens is kept off the multiples of 13, where the floating
\* point sum could fall on either side)
OverTokens(cur, para) == 13 * (Words(cur) + Words(para)) > 10 * max_tokens

\* a standalone chunk linked to the media of its page
SimpleLinked(text, chapter, page_num, page_images, page_tables) ==
  LET made == CreateSimpleChunk(text, chapter, page_num)
  IN  IF made = <<>> THEN <<>>
      ELSE << LinkContentToChunk(made[1], page_images, page_tables) >>

RECURSIVE ChunkPageLoop(_, _, _, _, _)
\* the loop over the paragraphs of _chunk_page and its final chunk
ChunkPageLoop(paras, cur, out, page, chapter) ==
  IF paras = <<>> THEN
    IF Strip(cur) # <<>>
    THEN out \o SimpleLinked(cur, chapter, ChunkPageNum(page), page.images, page.tables)
    ELSE out
  ELSE
    LET para == Head(paras) IN
    IF Strip(para) = <<>> THEN ChunkPageLoop(Tail(paras), cur, out, page, chapter)
    ELSE IF OverTokens(cur, para) /\ cur # <<>> THEN
      ChunkPageLoop(Tail(paras), para,
                    out \o SimpleLinked(cur, chapter, ChunkPageNum(page), page.images, page.tables),
                    page, chapter)
    ELSE ChunkPageLoop(Tail(paras), JoinPara(cur, para), out, page, chapter)

\* _chunk_page on the copy of the page whose text is `text`
ChunkPage(text, page, chapter) == ChunkPageLoop(Paragraphs(text), <<>>, <<>>, page, chapter)

\* ------------------------------------------------------------------------
\* chunk_document as a state machine
\* ------------------------------------------------------------------------
VARIABLES
  pages,                \* the input page list
  page_idx,             \* position of the page being processed (1-based)
  hdr_idx,              \* position in the sorted header list of the page
  current_pos,          \* token position of the cursor in the page text
  collecting_exercise,
  exercise_buffer,
  chunks,               \* the output list
  current_chapter,      \* current_chapter['number']
  pc,                   \* "pages", "done"; "call", "returned" for a direct call
  opens,                \* history: where each collection was opened, and
                        \* the images it had accumulated when it was closed
  metadata_store,       \* MetadataStore.data: chunk id -> chunk dict
  bm25,                 \* KeywordRetriever.bm25
  chunk_ids,            \* KeywordRetriever.chunk_ids
  call,                 \* the retrieval call in progress: arguments and
                        \* what the external searches give for its query
  ret,                  \* what the retrieval call returned
  rpc,                  \* "idle"; "call", "done" for a retrieval call
  searcher,             \* the locals of a running KeywordRetriever.search
  indexer,              \* the locals of a running index_chunks
  disk,                 \* the persisted stores: vector_db_path,
                        \* metadata_db_path, bm25_index_path
  pipeline,             \* the MathRAGPipeline instance: its components
  uuids,                \* how many chunk ids uuid4 has given out
  trace                 \* history: the last completed operation and what
                        \* it searched

\* the state of the chunker, the state of the retrieval side
cvars == <<pages, page_idx, hdr_idx, current_pos, collecting_exercise,
           exercise_buffer, chunks, current_chapter, pc, opens>>

rvars == <<metadata_store, bm25, chunk_ids, call, ret, rpc, searcher, indexer>>

\* the state of the application pipeline and of its files
avars == <<disk, pipeline, uuids, trace>>

vars == <<cvars, rvars, avars>>

\* a file that does not exist, a component that is still None
Missing == [present |-> FALSE, value |-> <<>>, broken |-> FALSE]

\* a file with this content, a component holding this value
Some(v) == [present |-> TRUE, value |-> v, broken |-> FALSE]

\* the file json.dump leaves when it raises part-way: not valid JSON
Truncated == [present |-> TRUE, value |-> <<>>, broken |-> TRUE]

\* nothing has been persisted
EmptyDisk ==
  [vector_db_path |-> Missing, metadata_db_path |-> Missing,
   bm25_index_path |-> Missing]

\* MathRAGPipeline.__init__: every component is None
FreshPipeline ==
  [vector_store |-> Missing, metadata_store |-> Missing, retriever |-> Missing]

\* no operation has completed on the instance; indexed: index_document has
\* completed on it, warm: the retriever existed when index_document last
\* stored chunks or completed
NoTrace ==
  [op |-> "init", ok |-> TRUE, raised |-> "", searched |-> <<>>,
   indexed |-> FALSE, warm |-> FALSE]

\* no application pipeline is in use
PipelineIdle ==
  /\ pipeline = FreshPipeline
  /\ uuids = 0
  /\ trace = NoTrace

\* no application pipeline is in use and nothing has been persisted
AppIdle ==
  /\ disk = EmptyDisk
  /\ PipelineIdle

\* no retriever has been constructed
RetrievalIdle ==
  /\ metadata_store = <<>>
  /\ bm25 = <<>>
  /\ chunk_ids = <<>>
  /\ call = <<>>
  /\ ret = <<>>
  /\ rpc = "idle"
  /\ searcher = <<>>
  /\ indexer = <<>>

EmptyBuffer ==
  [text |-> <<>>, number |-> "", start_page |-> 0, type |-> "exercise",
   images |-> <<>>, cid |-> 0]

RECURSIVE AccumulateImages(_, _)
\* for img in current_page_images: append unless its id is in the buffer
AccumulateImages(have, imgs) ==
  IF imgs = <<>> THEN have
  ELSE AccumulateImages(
         IF HasImage(have, Head(imgs).image_id) THEN have ELSE Append(have, Head(imgs)),
         Tail(imgs))

\* exercise_buffer['text'] += '\n\n' + text, with the images of the page
Collect(buffer, text, page_images) ==
  [buffer EXCEPT !.text = @ \o <<Sep>> \o text,
                 !.images = AccumulateImages(@, page_images)]

\* the buffer a header of type htype at position pos opens
OpenBuffer(htype, tok, text, pos, page_num, page_images, cid) ==
  [text |-> IF htype = "exercise" THEN Slice(text, pos, Len(text) + 1) ELSE <<>>,
   number |-> IF htype = "miscellaneous" THEN "Miscellaneous" ELSE HeaderNumber(tok),
   start_page |-> page_num,
   type |-> IF htype = "example" THEN "example" ELSE "exercise",
   images |-> page_images,
   cid |-> cid]

Opening == {"exercise", "example", "miscellaneous"}

TextAlphabet == {"w", "PB", "EX", "EG", "MI", "TH", "DF", "SEC", "PAGE"}

InitWith(docs) ==
  /\ pages \in docs
  /\ page_idx = 1
  /\ hdr_idx = 1
  /\ current_pos = 1
  /\ collecting_exercise = FALSE
  /\ exercise_buffer = EmptyBuffer
  /\ chunks = <<>>
  /\ current_chapter = 0
  /\ pc = "pages"
  /\ opens = <<>>
  /\ RetrievalIdle
  /\ AppIdle

Init == InitWith(Documents(TextAlphabet, MaxDocLen))

\* one iteration of the loop over the headers of the current page
HeaderStep ==
  /\ pc = "pages"
  /\ page_idx <= Len(pages)
  /\ hdr_idx <= Len(Headers(pages[page_idx].text))
  /\ LET page == pages[page_idx]
         page_num == PageNum(pages, page_idx)
         page_text == PageText(page.text, page_idx)
         pos == Headers(page.text)[hdr_idx]
         htype == HeaderType(page.text, pos)
         segment_text == Strip(Slice(page_text, current_pos, pos))
         buffer == IF segment_text # <<>> /\ collecting_exercise
                   THEN Collect(exercise_buffer, segment_text, page.images)
                   ELSE exercise_buffer
         standalone == IF segment_text # <<>> /\ ~collecting_exercise
                       THEN SimpleLinked(segment_text, current_chapter, page_num,
                                         page.images, page.tables)
                       ELSE <<>>
         collection_chunks == IF collecting_exercise
                              THEN CreateCollectionChunk(buffer, current_chapter,
                                                         buffer.images, page.tables)
                              ELSE <<>>
     IN  /\ chunks' = chunks \o standalone \o collection_chunks
         /\ collecting_exercise' = (htype \in Opening)
         /\ exercise_buffer' = IF htype \in Opening
                               THEN OpenBuffer(htype, page.text[pos], page_text, pos,
                                               page_num, page.images, Len(opens) + 1)
                               ELSE buffer
         /\ opens' = LET closed == IF collecting_exercise
                                    THEN [opens EXCEPT ![Len(opens)].images = buffer.images]
                                    ELSE opens
                     IN  IF htype \in Opening
                         THEN Append(closed, [p |-> page_idx, i |-> pos, images |-> <<>>])
                         ELSE closed
         /\ current_pos' = pos
         /\ hdr_idx' = hdr_idx + 1
  /\ UNCHANGED <<pages, page_idx, current_chapter, pc>>
  /\ UNCHANGED <<rvars, avars>>

\* the tail segment of the current page, the chapter update, the next page
TailStep ==
  /\ pc = "pages"
  /\ page_idx <= Len(pages)
  /\ hdr_idx > Len(Headers(pages[page_idx].text))
  /\ LET page == pages[page_idx]
         page_text == PageText(page.text, page_idx)
         tail_text == Strip(Slice(page_text, current_pos, Len(page_text) + 1))
         chapter == FirstChapter(page.text)
     IN  /\ exercise_buffer' = IF tail_text # <<>> /\ collecting_exercise
                               THEN Collect(exercise_buffer, tail_text, page.images)
                               ELSE exercise_buffer
         /\ chunks' = IF tail_text # <<>> /\ ~collecting_exercise
                      THEN chunks \o ChunkPage(tail_text, page, current_chapter)
                      ELSE chunks
         /\ current_chapter' = IF chapter # 0 THEN chapter ELSE current_chapter
  /\ page_idx' = page_idx + 1
  /\ hdr_idx' = 1
  /\ current_pos' = 1
  /\ UNCHANGED <<pages, collecting_exercise, pc, opens>>
  /\ UNCHANGED <<rvars, avars>>

\* after the loop over the pages: save any remaining collection, return
EndOfDocument ==
  /\ pc = "pages"
  /\ page_idx > Len(pages)
  /\ chunks' = IF collecting_exercise /\ exercise_buffer.text # <<>>
               THEN chunks \o CreateCollectionChunk(exercise_buffer, current_chapter,
                                                    exercise_buffer.images, <<>>)
               ELSE chunks
  /\ opens' = IF collecting_exercise
              THEN [opens EXCEPT ![Len(opens)].images = exercise_buffer.images]
              ELSE opens
  /\ pc' = "done"
  /\ UNCHANGED <<pages, page_idx, hdr_idx, current_pos, collecting_exercise,
                 exercise_buffer, current_chapter>>
  /\ UNCHANGED <<rvars, avars>>

Next == HeaderStep \/ TailStep \/ EndOfDocument

Spec == Init /\ [][Next]_vars

\* Documents with figure and table citations and media on the pages
LinkAlphabet == {"PB", "EG", "TH", "FIG", "TAB", "PAGE", "fig_1_1", "fig_9", "table_2_1"}

InitLink == InitWith(Documents(LinkAlphabet, MaxLinkDocLen))

SpecLink == InitLink /\ [][Next]_vars

\* Documents with chapter mentions and pages without a page_number key
MetaAlphabet == {"w", "EG", "TH", "CH1", "CH2", "PAGE", "NONUM"}

InitMeta == InitWith(Documents(MetaAlphabet, MaxMetaDocLen))

SpecMeta == InitMeta /\ [][Next]_vars

\* ------------------------------------------------------------------------
\* _create_collection_chunk called on a buffer of its own
\* ------------------------------------------------------------------------
BufferAlphabet == {"w", "W", "SP", "PB", "EG"}

BufferTexts == UNION { [1..k -> BufferAlphabet] : k \in 0..MaxBufLen }

InitSplit ==
  /\ pages = <<>>
  /\ page_idx = 1
  /\ hdr_idx = 1
  /\ current_pos = 1
  /\ collecting_exercise = TRUE
  /\ \E toks \in BufferTexts, kind \in {<<"example", "1">>, <<"exercise", "3.1">>} :
       exercise_buffer = [text |-> PageText(toks, 1), number |-> kind[2], start_page |-> 1,
                          type |-> kind[1], images |-> <<>>, cid |-> 1]
  /\ chunks = <<>>
  /\ current_chapter = 0
  /\ pc = "call"
  /\ opens = <<[p |-> 1, i |-> 1, images |-> <<>>]>>
  /\ RetrievalIdle
  /\ AppIdle

\* chunks = self._create_collection_chunk(buffer, ..., page_images=buffer['images'])
CreateCollectionChunkCall ==
  /\ pc = "call"
  /\ chunks' = CreateCollectionChunk(exercise_buffer, current_chapter,
                                     exercise_buffer.images, <<>>)
  /\ pc' = "returned"
  /\ UNCHANGED <<pages, page_idx, hdr_idx, current_pos, collecting_exercise,
                 exercise_buffer, current_chapter, opens>>
  /\ UNCHANGED <<rvars, avars>>

NextSplit == CreateCollectionChunkCall

SpecSplit == InitSplit /\ [][NextSplit]_vars

\* ------------------------------------------------------------------------
\* Properties of chunk_document
\* ------------------------------------------------------------------------
\* the chunks made from collection c
ChunksOf(c) == { k \in 1..Len(chunks) : chunks[k].cid = c }

\* the collections opened so far that have no chunk
Unflushed == { c \in 1..Len(opens) : ChunksOf(c) = {} }

\* C1: at most one collection is open at any time, and every collection a
\* header opened has at least one chunk as soon as the next header has been
\* processed (the chunk is there before that header's own collection exists)
\* or, with no further header, when the document has ended.
C1_CollectionsFlushed ==
  /\ Cardinality(Unflushed) <= 1
  /\ collecting_exercise => Len(opens) >= 1 /\ exercise_buffer.cid = Len(opens)
  /\ \A c \in Unflushed : c = Len(opens) /\ collecting_exercise /\ pc = "pages"

\* two collections were opened; a header flushed the first, the end of the
\* document the second
C1_Witness ==
  /\ pc = "done"
  /\ collecting_exercise
  /\ Len(opens) = 2
  /\ ChunksOf(1) # {} /\ ChunksOf(2) # {}

\* document order on origins [p, i]
Before(a, b) == a.p < b.p \/ (a.p = b.p /\ a.i < b.i)

\* whether a header of any family stands at token i of page p
HeaderAt(p, i) == HeaderType(pages[p].text, i) # ""

\* the page text a collection may hold: from the header that opened it up to
\* the next header in document order
InCollection(c, e) ==
  /\ ~Before(e, opens[c])
  /\ \A p \in 1..Len(pages) : \A i \in 1..Len(pages[p].text) :
       HeaderAt(p, i) /\ Before(opens[c], [p |-> p, i |-> i]) => Before(e, [p |-> p, i |-> i])

\* the places <<chunk, position>> of the page text held by the chunks of c
PlacesOf(c) ==
  UNION { { <<k, j>> : j \in { n \in 1..Len(chunks[k].text) : chunks[k].text[n].p # 0 } } :
          k \in ChunksOf(c) }

\* C2: the text of the chunks of a collection is page text lying between the
\* header that opened the collection and the next header in document order,
\* and no piece of page text occurs in it twice.
C2_CollectionTextBetweenHeaders ==
  \A c \in 1..Len(opens) :
    /\ \A x \in PlacesOf(c) : InCollection(c, chunks[x[1]].text[x[2]])
    /\ \A x, y \in PlacesOf(c) :
         x # y => chunks[x[1]].text[x[2]] # chunks[y[1]].text[y[2]]

ConceptTypes == {"theorem", "definition", "section"}

RECURSIVE GoverningHeader(_, _)
\* the family of the last header at or before token i of a page text, ""
\* when the token precedes every header of its page
GoverningHeader(toks, i) ==
  IF i = 0 THEN ""
  ELSE IF HeaderType(toks, i) # "" THEN HeaderType(toks, i)
  ELSE GoverningHeader(toks, i - 1)

\* the element comes from the text that follows a theorem, definition or
\* section header, up to the next header or the end of the page
FollowsConcept(e) == e.p # 0 /\ GoverningHeader(pages[e.p].text, e.i) \in ConceptTypes

Standalone(ch) == ch.cid = 0 /\ ch.example_number = None /\ ch.exercise_number = None

\* C3: a theorem, definition or section header opens no collection, and the
\* text that follows it is emitted in standalone chunks only: chunks without
\* an exercise/example label that belong to no collection.
C3_ConceptTextStandalone ==
  /\ (pc = "pages" /\ page_idx <= Len(pages) /\ hdr_idx > 1
        /\ HeaderType(pages[page_idx].text, current_pos) \in ConceptTypes)
       => ~collecting_exercise
  /\ \A k \in 1..Len(chunks) : \A j \in 1..Len(chunks[k].text) :
       FollowsConcept(chunks[k].text[j]) => Standalone(chunks[k])
  /\ pc = "done" =>
       \A p \in 1..Len(pages) : \A i \in 1..Len(pages[p].text) :
         (pages[p].text[i] \notin WS /\ FollowsConcept(El(pages[p].text[i], p, i)))
           => \E k \in 1..Len(chunks) : \E j \in 1..Len(chunks[k].text) :
                chunks[k].text[j] = El(pages[p].text[i], p, i)

\* ------------------------------------------------------------------------
\* Properties of _create_collection_chunk
\* ------------------------------------------------------------------------
\* the buffer is over max_chars: the call takes the split path
SplitCase ==
  /\ pc = "returned"
  /\ Strip(exercise_buffer.text) # <<>>
  /\ ~WithinMaxChars(TextLen(exercise_buffer.text))

\* C4: a buffer longer than the maximum gives at least ceil(len / max_chars)
\* parts, and the text of each part is no longer than max_chars.
C4_PartsWithinMaximum ==
  SplitCase =>
    /\ 7 * max_tokens * Len(chunks) >= 2 * TextLen(exercise_buffer.text)
    /\ \A k \in 1..Len(chunks) : WithinMaxChars(ChunkLen(chunks[k]))

\* the paragraphs of a text that are not blank
NonBlankParagraphs(text) == SelectSeq(Paragraphs(text), LAMBDA para : Strip(para) # <<>>)

RECURSIVE PartParagraphs(_)
\* the paragraphs of the parts, the synthetic headers left out, in emission order
PartParagraphs(cs) ==
  IF cs = <<>> THEN <<>>
  ELSE NonBlankParagraphs(Head(cs).text) \o PartParagraphs(Tail(cs))

\* C5: the parts of a split buffer, their synthetic headers removed and
\* concatenated in emission order, are the non-blank paragraphs of the buffer
\* in their original order.
C5_PartsReproduceParagraphs ==
  SplitCase => PartParagraphs(chunks) = NonBlankParagraphs(exercise_buffer.text)

\* a buffer with a blank paragraph was split into two parts, the second of
\* them holding two paragraphs behind a synthetic header
C5_Witness ==
  /\ SplitCase
  /\ Len(chunks) = 2
  /\ chunks[2].header = 2
  /\ Len(NonBlankParagraphs(chunks[2].text)) = 2
  /\ Len(Paragraphs(exercise_buffer.text)) > Len(NonBlankParagraphs(exercise_buffer.text))

\* ------------------------------------------------------------------------
\* Properties of the linking of media
\* ------------------------------------------------------------------------
\* the chunk cites a figure reference that matches the image
Cites(ch, image_id) == \E j \in 1..Len(ch.text) : FigMatches(ch.text[j].t, image_id)

\* the image was claimed by a chunk of the collection through a citation
Claimed(c, image_id) ==
  \E k \in ChunksOf(c) : Cites(chunks[k], image_id) /\ HasImage(chunks[k].images, image_id)

\* the collections that have been closed
Closed == { c \in 1..Len(opens) : c < Len(opens) \/ ~collecting_exercise \/ pc = "done" }

\* C6: when a collection is closed, every image it accumulated that no chunk
\* of the group claimed through a citation is attached to exactly the chunks
\* of the group whose page is the image's page.
C6_OrphansRescued ==
  \A c \in Closed : \A n \in 1..Len(opens[c].images) :
    LET img == opens[c].images[n] IN
    ~Claimed(c, img.image_id) =>
      \A k \in ChunksOf(c) :
        HasImage(chunks[k].images, img.image_id) <=> chunks[k].page_number = img.page_number

NoRepeat(ids) == \A j, k \in 1..Len(ids) : j # k => ids[j] # ids[k]

\* C7: no chunk holds the same image or the same table twice, and an image
\* that a chunk of a group attached through a citation is attached to no
\* chunk of the group by the orphan rescue, that is, to no chunk that does
\* not cite it.
C7_NoDoubleAttachment ==
  /\ \A k \in 1..Len(chunks) :
       /\ NoRepeat([j \in 1..Len(chunks[k].images) |-> chunks[k].images[j].image_id])
       /\ NoRepeat([j \in 1..Len(chunks[k].tables) |-> chunks[k].tables[j].table_id])
  /\ \A c \in 1..Len(opens) : \A id \in ImageIds :
       Claimed(c, id) =>
         \A k \in ChunksOf(c) : HasImage(chunks[k].images, id) => Cites(chunks[k], id)

\* a collection split into two parts on one page: the second part cites an
\* image and holds it once, the first part does not hold it, and the orphan
\* rescue has attached another image to both parts
C7_Witness ==
  /\ pc = "done"
  /\ \E k \in 1..Len(chunks) :
       /\ k + 1 <= Len(chunks)
       /\ chunks[k].cid # 0 /\ chunks[k + 1].cid = chunks[k].cid
       /\ chunks[k].page_number = chunks[k + 1].page_number
       /\ Cites(chunks[k + 1], "fig_1_1") /\ HasImage(chunks[k + 1].images, "fig_1_1")
       /\ ~HasImage(chunks[k].images, "fig_1_1")
       /\ HasImage(chunks[k].images, "fig_9") /\ HasImage(chunks[k + 1].images, "fig_9")

\* the pages a chunk spans: the page it records and the pages of its text
ChunkSpan(ch) ==
  {ch.page_number} \cup { PageNum(pages, ch.text[j].p) : j \in { n \in 1..Len(ch.text) : ch.text[n].p # 0 } }

\* C8: every image and every table attached to a chunk is on a page within
\* the page span of the chunk.
C8_MediaWithinSpan ==
  \A k \in 1..Len(chunks) :
    /\ \A j \in 1..Len(chunks[k].images) : chunks[k].images[j].page_number \in ChunkSpan(chunks[k])
    /\ \A j \in 1..Len(chunks[k].tables) : chunks[k].tables[j].page_number \in ChunkSpan(chunks[k])

\* ------------------------------------------------------------------------
\* Properties of the structural metadata
\* ------------------------------------------------------------------------
\* C9: the chapter numbers of the chunks, in output order, never decrease.
C9_ChaptersNonDecreasing ==
  \A j, k \in 1..Len(chunks) : j < k => chunks[j].chapter_number <= chunks[k].chapter_number

\* C10: the page number of every chunk is the number of an input page (its
\* page_number field or, without one, its 1-based position), and a
\* standalone chunk carries the number of the page its text came from.
C10_PageNumbersOfInputPages ==
  \A k \in 1..Len(chunks) :
    /\ \E p \in 1..Len(pages) : chunks[k].page_number = PageNum(pages, p)
    /\ chunks[k].cid = 0 =>
         \A j \in 1..Len(chunks[k].text) :
           chunks[k].text[j].p # 0 => chunks[k].page_number = PageNum(pages, chunks[k].text[j].p)

\* whether a chapter header stands at token i of page p
ChapterAt(p, i) == pages[p].text[i] \in {"CH1", "CH2"}

\* the element e lies before, the element f at or after one chapter header
Straddles(e, f) ==
  /\ e.p # 0 /\ f.p # 0
  /\ \E p \in 1..Len(pages) : \E i \in 1..Len(pages[p].text) :
       /\ ChapterAt(p, i)
       /\ Before(e, [p |-> p, i |-> i])
       /\ ~Before(f, [p |-> p, i |-> i])

\* C11: no collection chunk holds page text from both sides of a chapter
\* header: a collection opened before the header is committed before the
\* text at or after the header is accumulated.
C11_NoCollectionAcrossChapter ==
  \A k \in 1..Len(chunks) :
    chunks[k].cid # 0 =>
      \A a, b \in 1..Len(chunks[k].text) :
        ~Straddles(chunks[k].text[a], chunks[k].text[b])

\* ------------------------------------------------------------------------
\* Queries
\* ------------------------------------------------------------------------
\* A query is a sequence of tokens; its string is the concatenation of the
\* tokens, each token standing for itself (" " is one blank).  The tokens
\* are chosen so that no pattern and no keyword of the classifier matches
\* across a token border except as the operators below say.
MaxQueryLen == 5

NumberTokens == {"1", "2", "3", "4"}

TokVal(t) == CASE t = "1" -> 1 [] t = "2" -> 2 [] t = "3" -> 3 [] t = "4" -> 4 [] OTHER -> 0

NumberAt(q, i) == i >= 1 /\ i <= Len(q) /\ q[i] \in NumberTokens

RECURSIVE SkipSpaces(_, _)
\* \s* from position i: the first position at or after i that is no blank
SkipSpaces(q, i) ==
  IF i <= Len(q) /\ q[i] = " " THEN SkipSpaces(q, i + 1) ELSE i

RECURSIVE DigitsEnd(_, _)
\* \d+ from position i, greedy: the first position after i that is no digit
DigitsEnd(q, i) ==
  IF NumberAt(q, i) THEN DigitsEnd(q, i + 1) ELSE i

RECURSIVE NumStr(_, _, _)
\* match.group(n): the digits of positions i .. j - 1 as a string
NumStr(q, i, j) ==
  IF i >= j THEN "" ELSE q[i] \o NumStr(q, i + 1, j)

RECURSIVE NumVal(_, _, _)
\* int(match.group(n)) for the digits of positions i .. j - 1
NumVal(q, i, j) ==
  IF i >= j THEN 0 ELSE 10 * NumVal(q, i, j - 1) + TokVal(q[j - 1])

\* the least element of a non-empty set of integers
Least(S) == CHOOSE x \in S : \A y \in S : x <= y

\* the words of _is_entity_query, each followed by \s*\d+
EntityWords == {"example", "ex", "exercise", "question", "q", "problem"}

\* HybridRetriever._is_entity_query
IsEntityQuery(q) ==
  \E i \in 1..Len(q) : q[i] \in EntityWords /\ NumberAt(q, SkipSpaces(q, i + 1))

\* the positions where example\s+(\d+) matches
ExampleNumberAt(q) ==
  { i \in 1..Len(q) : /\ q[i] = "example"
                      /\ i < Len(q) /\ q[i + 1] = " "
                      /\ NumberAt(q, SkipSpaces(q, i + 1)) }

\* the positions where ex\.\s*(\d+) matches
ExDotNumberAt(q) ==
  { i \in 1..Len(q) : q[i] = "ex." /\ NumberAt(q, SkipSpaces(q, i + 1)) }

\* QueryClassifier.extract_example_number: the number as a string, or None
ExtractExampleNumber(q) ==
  LET first(S) == LET a == SkipSpaces(q, Least(S) + 1) IN NumStr(q, a, DigitsEnd(q, a))
  IN  IF ExampleNumberAt(q) # {} THEN first(ExampleNumberAt(q))
      ELSE IF ExDotNumberAt(q) # {} THEN first(ExDotNumberAt(q))
      ELSE None

\* where the second number of examples?\s+(\d+)\s*(?:to|-)\s*(\d+) begins
\* when the pattern matches at position i, 0 when it does not
RangeSecond(q, i) ==
  IF ~(q[i] \in {"example", "examples"} /\ i < Len(q) /\ q[i + 1] = " ") THEN 0
  ELSE LET a == SkipSpaces(q, i + 1)
           c == SkipSpaces(q, DigitsEnd(q, a))
           d == SkipSpaces(q, c + 1)
       IN  IF NumberAt(q, a) /\ c <= Len(q) /\ q[c] \in {"to", "-"} /\ NumberAt(q, d)
           THEN d ELSE 0

RangeAt(q) == { i \in 1..Len(q) : RangeSecond(q, i) # 0 }

\* [str(i) for i in range(start, end + 1)]
StrRange(start, end) == [n \in 1..(end - start + 1) |-> ToString(start + n - 1)]

\* QueryClassifier.extract_example_range: the numbers as strings; None,
\* which like the empty list counts as false, is the empty sequence
ExtractExampleRange(q) ==
  IF RangeAt(q) = {} THEN <<>>
  ELSE LET i == Least(RangeAt(q))
           a == SkipSpaces(q, i + 1)
           d == RangeSecond(q, i)
           m1 == NumVal(q, a, DigitsEnd(q, a))
           m2 == NumVal(q, d, DigitsEnd(q, d))
           start == IF m2 < m1 THEN m2 ELSE m1
           hi == IF m2 < m1 THEN m1 ELSE m2
           end == IF hi - start > 10 THEN start + 10 ELSE hi
       IN  StrRange(start, end)

\* self.query_types, in the order of the dictionary
QueryTypes == <<"definition", "theorem", "formula", "example", "exercise", "concept">>

\* the query types one of whose keywords occurs in the token
TokenTypes(t) ==
  CASE t \in {"what is", "define"} -> {"definition"}
    [] t \in {"theorem", "prove"} -> {"theorem"}
    [] t \in {"formula"} -> {"formula"}
    [] t \in {"example", "examples"} -> {"example"}
    [] t \in {"exercise", "question", "problem", "solve"} -> {"exercise"}
    [] t \in {"explain", "how"} -> {"concept"}
    [] OTHER -> {}

HasKeyword(q, ty) == \E i \in 1..Len(q) : ty \in TokenTypes(q[i])

\* QueryClassifier.classify
Classify(q) ==
  IF ExtractExampleNumber(q) # None THEN "example"
  ELSE IF \E n \in 1..Len(QueryTypes) : HasKeyword(q, QueryTypes[n])
       THEN QueryTypes[Least({ n \in 1..Len(QueryTypes) : HasKeyword(q, QueryTypes[n]) })]
       ELSE "concept"

RECURSIVE Queries(_, _)
\* the queries of at most n tokens over an alphabet
Queries(alphabet, n) ==
  IF n = 0 THEN {<<>>}
  ELSE LET shorter == Queries(alphabet, n - 1)
       IN  shorter \cup { Append(q, t) : q \in { s \in shorter : Len(s) = n - 1 }, t \in alphabet }

\* ------------------------------------------------------------------------
\* The stores
\* ------------------------------------------------------------------------
MaxChunks == 3

\* chunk ids are 1 .. MaxChunks
ChunkIds == 1..MaxChunks

\* what dict.get gives for a missing chunk id
NoChunk ==
  [content_type |-> "", loaded |-> FALSE, example_number |-> None,
   class_level |-> "", chapter_number |-> 0, present |-> FALSE]

\* a stored chunk dictionary.  loaded says that ContentChunk.from_dict has
\* run on the dictionary: it replaces data['content_type'] by the
\* ContentType member in the stored dictionary itself
ChunkDict(ct, ex) ==
  [content_type |-> ct, loaded |-> FALSE, example_number |-> ex,
   class_level |-> "11", chapter_number |-> 1, present |-> TRUE]

\* MetadataStore.get_chunk
GetChunk(store, id) == IF id \in DOMAIN store THEN store[id] ELSE NoChunk

\* a filter dictionary: a key with "" (chapter_number: 0) is not in it
NoFilters ==
  [content_type |-> "", example_number |-> "", class_level |-> "", chapter_number |-> 0]

\* `if filters`
HasFilters(filters) == filters # NoFilters

\* chunk.get(key) != val for no key of the filters.  A content_type that
\* from_dict has replaced by the enumeration member equals no string
MatchesFilters(chunk, filters) ==
  /\ filters.content_type # "" =>
       ~chunk.loaded /\ chunk.content_type = filters.content_type
  /\ filters.example_number # "" => chunk.example_number = filters.example_number
  /\ filters.class_level # "" => chunk.class_level = filters.class_level
  /\ filters.chapter_number # 0 => chunk.chapter_number = filters.chapter_number

\* MetadataStore.filter_chunks, as the set of the chunk ids
FilterChunks(store, filters) ==
  { id \in DOMAIN store : MatchesFilters(store[id], filters) }

\* the first n elements of a sequence
Take(s, n) == SubSeq(s, 1, IF n < Len(s) THEN n ELSE Len(s))

\* FAISSVectorStore.search: similar lists the chunk ids of the index by
\* descending similarity to the query
VectorSearch(similar, top_k) == Take(similar, top_k)

\* FAISSVectorStore.search_with_filter
SearchWithFilter(similar, top_k, filter_chunk_ids) ==
  LET initial_k == IF top_k * 10 < Len(similar) THEN top_k * 10 ELSE Len(similar)
      all_results == VectorSearch(similar, initial_k)
  IN  Take(SelectSeq(all_results, LAMBDA id : id \in filter_chunk_ids), top_k)

\* ------------------------------------------------------------------------
\* KeywordRetriever
\* ------------------------------------------------------------------------
\* no BM25 model has been built
NoIndex == [built |-> FALSE, docs |-> <<>>]

\* BM25Okapi(tokenized_corpus): docs names, for each document of the
\* corpus, the chunk its text came from
BM25Okapi(ids) == [built |-> TRUE, docs |-> ids]

\* self.bm25.get_scores(tokenized_query): one score per document of the
\* corpus; relevance gives the score of a chunk's text for the query
GetScores(b, relevance) == [i \in 1..Len(b.docs) |-> relevance[b.docs[i]]]

\* the orders np.argsort(scores) can give: every arrangement of the
\* indices by ascending score (the order among equal scores is not fixed)
ArgSorts(scores) ==
  { p \in [1..Len(scores) -> 1..Len(scores)] :
      /\ \A i, j \in 1..Len(scores) : i # j => p[i] # p[j]
      /\ \A i \in 1..(Len(scores) - 1) : scores[p[i]] <= scores[p[i + 1]] }

\* the top_n indices of lowest score
TopIndices_Lowest(order, top_n) == [j \in 1..top_n |-> order[top_n - j + 1]]

\* np.argsort(scores)[-top_n:][::-1]
TopIndices(order, top_n) == [j \in 1..top_n |-> order[Len(order) - j + 1]]

\* the result loop of KeywordRetriever.search
PositiveResults(ids, scores, top_indices) ==
  SelectSeq([j \in 1..Len(top_indices) |->
               [id |-> ids[top_indices[j]], score |-> scores[top_indices[j]],
                doc |-> top_indices[j]]],
            LAMBDA r : r.score > 0)

\* KeywordRetriever.search with the index of one build
KeywordSearch(b, ids, relevance, order, top_k) ==
  IF ~b.built THEN <<>>
  ELSE LET scores == GetScores(b, relevance)
           top_n == IF top_k < Len(scores) THEN top_k ELSE Len(scores)
       IN  IF top_n = 0 THEN <<>>
           ELSE PositiveResults(ids, scores, TopIndices(order, top_n))

\* ------------------------------------------------------------------------
\* HybridRetriever.retrieve
\* ------------------------------------------------------------------------
\* the vector weight of an entity query, in tenths
EntityAlpha == 3

rank_constant == 60

\* a fused score is the fraction num / (10 * den)
ZeroScore == [num |-> 0, den |-> 1]

\* the contribution with the 0-based rank of enumerate taken as it is
AddRRF_ZeroBased(score, weight, rank) ==
  [num |-> score.num * (rank_constant + rank) + weight * score.den,
   den |-> score.den * (rank_constant + rank)]

\* score + weight * (1 / (rank_constant + rank + 1)), weight in tenths
AddRRF(score, weight, rank) ==
  [num |-> score.num * (rank_constant + rank + 1) + weight * score.den,
   den |-> score.den * (rank_constant + rank + 1)]

ScoreLess(a, b) == a.num * b.den < b.num * a.den

ScoreEq(a, b) == a.num * b.den = b.num * a.den

\* the position of chunk id in the fused scores, 0 when it is not there
FusedIndex(fused, id) ==
  IF \E n \in 1..Len(fused) : fused[n].id = id
  THEN CHOOSE n \in 1..Len(fused) : fused[n].id = id
  ELSE 0

RECURSIVE ApplyRRF_NoRecheck(_, _, _, _, _, _)
\* apply_rrf without the second look at the filters
ApplyRRF_NoRecheck(fused, ids, rank, weight, filters, store) ==
  IF ids = <<>> THEN fused
  ELSE LET id == Head(ids)
           n == FusedIndex(fused, id)
           next == IF n = 0
                   THEN Append(fused, [id |-> id, score |-> AddRRF(ZeroScore, weight, rank)])
                   ELSE [fused EXCEPT ![n].score = AddRRF(@, weight, rank)]
       IN  ApplyRRF_NoRecheck(next, Tail(ids), rank + 1, weight, filters, store)

RECURSIVE ApplyRRF(_, _, _, _, _, _)
\* apply_rrf(results, weight=weight): fused is the dictionary as the list
\* of its items in insertion order, rank the 0-based rank of Head(ids)
ApplyRRF(fused, ids, rank, weight, filters, store) ==
  IF ids = <<>> THEN fused
  ELSE LET id == Head(ids)
           chunk == GetChunk(store, id)
           skip == HasFilters(filters) /\ (~chunk.present \/ ~MatchesFilters(chunk, filters))
           n == FusedIndex(fused, id)
           next == IF skip THEN fused
                   ELSE IF n = 0
                        THEN Append(fused, [id |-> id, score |-> AddRRF(ZeroScore, weight, rank)])
                        ELSE [fused EXCEPT ![n].score = AddRRF(@, weight, rank)]
       IN  ApplyRRF(next, Tail(ids), rank + 1, weight, filters, store)

RECURSIVE SortedByScore_TiesReversed(_)
\* a descending sort that puts an item ahead of the items of equal score
SortedByScore_TiesReversed(items) ==
  IF items = <<>> THEN <<>>
  ELSE LET rest == SortedByScore_TiesReversed(SubSeq(items, 1, Len(items) - 1))
           x == items[Len(items)]
           ahead == { n \in 1..Len(rest) : ScoreLess(x.score, rest[n].score) }
           at == IF ahead = {} THEN 0 ELSE CHOOSE n \in ahead : \A o \in ahead : o <= n
       IN  SubSeq(rest, 1, at) \o <<x>> \o SubSeq(rest, at + 1, Len(rest))

RECURSIVE SortedByScore(_)
\* sorted(fused_scores.items(), key=lambda x: x[1], reverse=True): stable,
\* items of equal score keep their order
SortedByScore(items) ==
  IF items = <<>> THEN <<>>
  ELSE LET rest == SortedByScore(SubSeq(items, 1, Len(items) - 1))
           x == items[Len(items)]
           \* x, the last item, goes behind every item that is not smaller
           ahead == { n \in 1..Len(rest) : ~ScoreLess(rest[n].score, x.score) }
           at == IF ahead = {} THEN 0 ELSE CHOOSE n \in ahead : \A o \in ahead : o <= n
       IN  SubSeq(rest, 1, at) \o <<x>> \o SubSeq(rest, at + 1, Len(rest))

\* a resolution that keeps the ids the metadata store does not hold
ResolveResults_KeepStale(sorted, store) ==
  [n \in 1..Len(sorted) |->
     [chunk_id |-> sorted[n].id, score |-> sorted[n].score, rank |-> n,
      chunk |-> GetChunk(store, sorted[n].id)]]

\* the loop that resolves the sorted ids: a RetrievalResult for every id
\* the metadata store holds
ResolveResults(sorted, store) ==
  SelectSeq([n \in 1..Len(sorted) |->
               [chunk_id |-> sorted[n].id, score |-> sorted[n].score, rank |-> n,
                chunk |-> GetChunk(store, sorted[n].id)]],
            LAMBDA r : r.chunk.present)

\* the metadata store after ContentChunk.from_dict has run on the
\* dictionaries of the resolved ids
Loaded(store, results) ==
  [id \in DOMAIN store |->
     IF \E n \in 1..Len(results) : results[n].chunk_id = id
     THEN [store[id] EXCEPT !.loaded = TRUE]
     ELSE store[id]]

\* what one search sees: env.similar is the vector index by descending
\* similarity to the query, env.relevance the lexical score of each chunk,
\* env.order the outcome of argsort on the scores, env.alpha self.alpha
\* in tenths
Retrieve(env, store, query, top_k, filters) ==
  LET k == IF top_k # 0 THEN top_k ELSE env.default_top_k
      current_alpha == IF IsEntityQuery(query) THEN EntityAlpha ELSE env.alpha
      vector_results ==
        IF HasFilters(filters)
        THEN SearchWithFilter(env.similar, k * 2, FilterChunks(store, filters))
        ELSE VectorSearch(env.similar, k * 2)
      keyword_results == KeywordSearch(bm25, chunk_ids, env.relevance, env.order, k * 2)
      keyword_ids == [n \in 1..Len(keyword_results) |-> keyword_results[n].id]
      fused_v == ApplyRRF(<<>>, vector_results, 0, current_alpha, filters, store)
      fused_scores == ApplyRRF(fused_v, keyword_ids, 0, 10 - current_alpha, filters, store)
      sorted_results == Take(SortedByScore(fused_scores), k)
      retrieval_results == ResolveResults(sorted_results, store)
  IN  [results |-> retrieval_results,
       store |-> Loaded(store, retrieval_results),
       current_alpha |-> current_alpha,
       vector_results |-> vector_results,
       keyword_results |-> keyword_ids,
       sorted_results |-> sorted_results]

\* ------------------------------------------------------------------------
\* RetrievalPipeline.search
\* ------------------------------------------------------------------------
RECURSIVE RetrieveRange(_, _, _, _, _)
\* the loop over ex_range: retrieve_by_example(query, ex_num, top_k=2) for
\* every number, the results concatenated
RetrieveRange(env, store, query, ex_range, results) ==
  IF ex_range = <<>> THEN [results |-> results, store |-> store]
  ELSE LET r == Retrieve(env, store, query, 2,
                         [NoFilters EXCEPT !.example_number = Head(ex_range)])
       IN  RetrieveRange(env, r.store, query, Tail(ex_range), results \o r.results)

RECURSIVE MergeGeneral(_, _, _, _)
\* for r in general_results: append r unless its chunk id is among the ids
\* the filtered results had; stop once top_k results are there
MergeGeneral(results, general_results, existing_ids, top_k) ==
  IF general_results = <<>> THEN results
  ELSE LET r == Head(general_results)
       IN  IF r.chunk_id \in existing_ids
           THEN MergeGeneral(results, Tail(general_results), existing_ids, top_k)
           ELSE IF Len(results) + 1 >= top_k
                THEN Append(results, r)
                ELSE MergeGeneral(Append(results, r), Tail(general_results), existing_ids, top_k)

\* a single-example branch that returns the exact match as it is
SingleExample_ExactOnly(env, store, query, ex_num, top_k, filters) ==
  Retrieve(env, store, query, top_k, [NoFilters EXCEPT !.example_number = ex_num])

\* the single-example branch: the exact match, an empty one replaced by
\* the general search
SingleExample(env, store, query, ex_num, top_k, filters) ==
  LET exact == Retrieve(env, store, query, top_k,
                        [NoFilters EXCEPT !.example_number = ex_num])
  IN  IF exact.results # <<>> THEN exact
      ELSE Retrieve(env, exact.store, query, top_k, filters)

\* the branch by query type: filtered by content type first, the general
\* search merged in when fewer than top_k // 2 results came; yield is
\* len(results) before the merge
ByType(env, store, query, query_type, top_k, filters) ==
  IF query_type \in {"definition", "theorem", "formula", "example"}
  THEN LET typed == Retrieve(env, store, query, top_k,
                             [NoFilters EXCEPT !.content_type = query_type])
       IN  IF Len(typed.results) < top_k \div 2
           THEN LET general == Retrieve(env, typed.store, query, top_k, filters)
                    existing_ids == { typed.results[n].chunk_id : n \in 1..Len(typed.results) }
                IN  [results |-> MergeGeneral(typed.results, general.results, existing_ids, top_k),
                     store |-> general.store, yield |-> Len(typed.results)]
           ELSE [results |-> typed.results, store |-> typed.store, yield |-> Len(typed.results)]
  ELSE LET general == Retrieve(env, store, query, top_k, filters)
       IN  [results |-> general.results, store |-> general.store, yield |-> 0]

\* RetrievalPipeline.search; path names the return statement taken, yield
\* is the number of results the search by content type gave
PipelineSearch(env, store, query, top_k, class_level, chapter_number) ==
  LET query_type == Classify(query)
      filters == [NoFilters EXCEPT !.class_level = class_level,
                                   !.chapter_number = chapter_number]
      ex_range == IF query_type = "example" THEN ExtractExampleRange(query) ELSE <<>>
      ranged == RetrieveRange(env, store, query, ex_range, <<>>)
      ex_num == IF query_type = "example" THEN ExtractExampleNumber(query) ELSE None
  IN  IF ranged.results # <<>>
      THEN [results |-> Take(ranged.results, top_k), store |-> ranged.store,
            query_type |-> query_type, path |-> "range", yield |-> 0]
      ELSE IF ex_num # None
           THEN LET single == SingleExample(env, ranged.store, query, ex_num, top_k, filters)
                IN  [results |-> single.results, store |-> single.store,
                     query_type |-> query_type, path |-> "single", yield |-> 0]
           ELSE LET typed == ByType(env, ranged.store, query, query_type, top_k, filters)
                IN  [results |-> typed.results, store |-> typed.store,
                     query_type |-> query_type, path |-> "type", yield |-> typed.yield]

\* ------------------------------------------------------------------------
\* Retrieval calls as a state machine
\* ------------------------------------------------------------------------
MaxTopK == 4

\* self.top_k, the config default
default_top_k == 5

\* no document is being chunked
ChunkerIdle ==
  /\ pages = <<>>
  /\ page_idx = 1
  /\ hdr_idx = 1
  /\ current_pos = 1
  /\ collecting_exercise = FALSE
  /\ exercise_buffer = EmptyBuffer
  /\ chunks = <<>>
  /\ current_chapter = 0
  /\ pc = "idle"
  /\ opens = <<>>

\* nothing has been returned yet
NoReturn ==
  [calls |-> 0, results |-> <<>>, current_alpha |-> 0, query_type |-> "",
   path |-> "", yield |-> 0, vector_results |-> <<>>, keyword_results |-> <<>>,
   sorted_results |-> <<>>]

RECURSIVE InjectiveSeqs(_)
\* the sequences without repetition over a set
InjectiveSeqs(S) ==
  {<<>>} \cup UNION { { <<x>> \o s : s \in InjectiveSeqs(S \ {x}) } : x \in S }

RECURSIVE Ascending(_)
\* the elements of a set of numbers in ascending order
Ascending(S) ==
  IF S = {} THEN <<>> ELSE <<Least(S)>> \o Ascending(S \ {Least(S)})

\* a retrieval call: the arguments, and what the external searches hold for
\* the query (similar: the chunk ids of the vector index by descending
\* similarity, relevance: the BM25 score of each chunk's text), alpha the
\* configured vector weight in tenths, repeat how often the call is made
Call(op, query, top_k, filters, similar, relevance, alpha, repeat) ==
  [op |-> op, query |-> query, top_k |-> top_k, filters |-> filters,
   class_level |-> "", chapter_number |-> 0,
   similar |-> similar, relevance |-> relevance, alpha |-> alpha,
   default_top_k |-> default_top_k, repeat |-> repeat]

\* the argsort outcome joined to what the call sees
WithOrder(c, order) ==
  [similar |-> c.similar, relevance |-> c.relevance, alpha |-> c.alpha,
   default_top_k |-> c.default_top_k, order |-> order]

\* the scores the keyword index gives for the query of the call
CallScores == GetScores(bm25, call.relevance)

\* results = retriever.retrieve(query, top_k, filters)
RetrieveCall ==
  /\ rpc = "call"
  /\ call.op = "retrieve"
  /\ \E order \in ArgSorts(CallScores) :
       LET r == Retrieve(WithOrder(call, order), metadata_store, call.query,
                         call.top_k, call.filters)
       IN  /\ ret' = [ret EXCEPT !.calls = @ + 1,
                                 !.results = r.results,
                                 !.current_alpha = r.current_alpha,
                                 !.vector_results = r.vector_results,
                                 !.keyword_results = r.keyword_results,
                                 !.sorted_results = r.sorted_results]
           /\ metadata_store' = r.store
  /\ rpc' = IF ret.calls + 1 < call.repeat THEN "call" ELSE "done"
  /\ UNCHANGED <<bm25, chunk_ids, call, searcher, indexer>>
  /\ UNCHANGED <<cvars, avars>>

\* results = pipeline.search(query, top_k, class_level, chapter_number)
SearchCall ==
  /\ rpc = "call"
  /\ call.op = "search"
  /\ \E order \in ArgSorts(CallScores) :
       \E r \in {PipelineSearch(WithOrder(call, order), metadata_store, call.query,
                               call.top_k, call.class_level, call.chapter_number)} :
           /\ ret' = [ret EXCEPT !.calls = @ + 1,
                                 !.results = r.results,
                                 !.query_type = r.query_type,
                                 !.path = r.path,
                                 !.yield = r.yield]
           /\ metadata_store' = r.store
  /\ rpc' = IF ret.calls + 1 < call.repeat THEN "call" ELSE "done"
  /\ UNCHANGED <<bm25, chunk_ids, call, searcher, indexer>>
  /\ UNCHANGED <<cvars, avars>>

\* the metadata stores over the chunk ids with chunks of the given kinds
\* <<content_type, example_number>>
Stores(ids, kinds) ==
  { [id \in ids |-> ChunkDict(kind[id][1], kind[id][2])] : kind \in [ids -> kinds] }

\* a keyword index built over the chunks ids, or none when ids is empty
\* (BM25Okapi cannot be built over an empty corpus); index_chunks saved the
\* index it built, load_index read it from the file
KeywordIndexOver(ids) ==
  IF ids = <<>>
  THEN bm25 = NoIndex /\ chunk_ids = <<>> /\ disk = EmptyDisk
  ELSE /\ bm25 = BM25Okapi(ids)
       /\ chunk_ids = ids
       /\ disk = [EmptyDisk EXCEPT !.bm25_index_path = Some(ids)]

\* the scores of the chunks of the index drawn from a set, 0 elsewhere
Relevances(ids, values) ==
  { [id \in ChunkIds |-> IF id \in ids THEN f[id] ELSE 0] : f \in [ids -> values] }

\* retrieve over stores that agree on the stored chunks, and a keyword
\* index that may also hold the ids of deleted chunks
InitRetrieve ==
  /\ ChunkerIdle
  /\ PipelineIdle
  /\ \E stored \in SUBSET ChunkIds, indexed \in SUBSET ChunkIds :
       /\ metadata_store \in Stores(stored, {<<"text", None>>})
       /\ KeywordIndexOver(Ascending(indexed))
       /\ \E similar \in InjectiveSeqs(stored), relevance \in Relevances(indexed, {0, 1}),
             top_k \in 1..MaxTopK, alpha \in {5, 7} :
            call = Call("retrieve", <<"explain">>, top_k, NoFilters, similar, relevance,
                        alpha, 1)
  /\ ret = NoReturn
  /\ rpc = "call"
  /\ searcher = <<>>
  /\ indexer = <<>>

NextRetrieve == RetrieveCall

SpecRetrieve == InitRetrieve /\ [][NextRetrieve]_vars

\* ------------------------------------------------------------------------
\* Properties of HybridRetriever.retrieve
\* ------------------------------------------------------------------------
\* a call has returned (the first one, or a repeated one)
Returned == ret.calls >= 1

\* the candidates in the order the fusion meets them
FusionOrder == ret.vector_results \o ret.keyword_results

\* where the fusion first met a chunk id
FirstSeen(id) == Least({ n \in 1..Len(FusionOrder) : FusionOrder[n] = id })

\* C12: the list retrieve returns is in descending order of fused score,
\* and results of equal fused score stand in the order in which the fusion
\* first met their chunk ids (vector candidates, then lexical candidates).
C12_DescendingFirstSeen ==
  Returned /\ call.op = "retrieve" =>
    \A i, j \in 1..Len(ret.results) :
      i < j =>
        /\ ~ScoreLess(ret.results[i].score, ret.results[j].score)
        /\ ScoreEq(ret.results[i].score, ret.results[j].score) =>
             FirstSeen(ret.results[i].chunk_id) < FirstSeen(ret.results[j].chunk_id)

\* three results: two of equal score, the one the fusion met first (not the
\* one with the smaller id) ahead, and a third of smaller score
C12_Witness ==
  /\ Returned /\ call.op = "retrieve"
  /\ Len(ret.results) = 3
  /\ ScoreEq(ret.results[1].score, ret.results[2].score)
  /\ ret.results[1].chunk_id > ret.results[2].chunk_id
  /\ ScoreLess(ret.results[3].score, ret.results[2].score)

\* the chunk ids of a list of results or of fused items
IdsOf(rs) == [n \in 1..Len(rs) |-> IF "chunk_id" \in DOMAIN rs[n] THEN rs[n].chunk_id ELSE rs[n].id]

\* C13: a chunk id of the fused top k that the metadata store does not hold
\* is left out, the call returns, every id of the top k that the store
\* holds is returned, and no returned chunk is absent from the store.
C13_StaleIdsSkipped ==
  Returned /\ call.op = "retrieve" =>
    /\ \A n \in 1..Len(ret.results) :
         ret.results[n].chunk_id \in DOMAIN metadata_store /\ ret.results[n].chunk.present
    /\ IdsOf(ret.results) =
         SelectSeq(IdsOf(ret.sorted_results), LAMBDA id : id \in DOMAIN metadata_store)

\* the top k held the id of a deleted chunk, ranked first, and a stored one
C13_Witness ==
  /\ Returned /\ call.op = "retrieve"
  /\ ret.results # <<>>
  /\ Len(ret.sorted_results) > Len(ret.results)
  /\ ret.sorted_results[1].id \notin DOMAIN metadata_store

\* ------------------------------------------------------------------------
\* KeywordRetriever as a state machine
\* ------------------------------------------------------------------------
\* results = keyword_retriever.search(query, top_k), nothing else running
KeywordSearchCall ==
  /\ rpc = "call"
  /\ call.op = "keyword_search"
  /\ \E order \in ArgSorts(CallScores) :
       ret' = [ret EXCEPT !.calls = @ + 1,
                          !.results = KeywordSearch(bm25, chunk_ids, call.relevance,
                                                    order, call.top_k)]
  /\ rpc' = "done"
  /\ UNCHANGED <<metadata_store, bm25, chunk_ids, call, searcher, indexer>>
  /\ UNCHANGED <<cvars, avars>>

\* searches of a keyword index of any order, with scores below, at and
\* above zero
InitKeyword ==
  /\ ChunkerIdle
  /\ PipelineIdle
  /\ metadata_store = <<>>
  /\ \E ids \in InjectiveSeqs(ChunkIds) :
       /\ KeywordIndexOver(ids)
       /\ \E relevance \in Relevances({ ids[n] : n \in 1..Len(ids) }, {-1, 0, 1, 2}),
             top_k \in 0..MaxTopK :
            call = Call("keyword_search", <<"explain">>, top_k, NoFilters, <<>>, relevance, 7, 1)
  /\ ret = NoReturn
  /\ rpc = "call"
  /\ searcher = <<>>
  /\ indexer = <<>>

NextKeyword == KeywordSearchCall

SpecKeyword == InitKeyword /\ [][NextKeyword]_vars

\* search and index_chunks running in two threads.  A thread switch can
\* come between any two reads or writes of self.bm25 and self.chunk_ids.
\* searcher: pc, the scores and the documents of the index the scores came
\* from, the top indices, the position n in them, the results so far.
\* indexer: pc and the chunks to index.
SearcherAt(at) == rpc = "threads" /\ searcher.pc = at

IndexerAt(at) == rpc = "threads" /\ indexer.pc = at

\* if not self.bm25: return []
SearchCheck ==
  /\ SearcherAt("check")
  /\ searcher' = [searcher EXCEPT !.pc = IF bm25.built THEN "scores" ELSE "done"]
  /\ UNCHANGED <<metadata_store, bm25, chunk_ids, call, ret, rpc, indexer>>
  /\ UNCHANGED <<cvars, avars>>

\* scores = self.bm25.get_scores(...); top_n; top_indices
SearchScores ==
  /\ SearcherAt("scores")
  /\ LET scores == GetScores(bm25, call.relevance)
         top_n == IF call.top_k < Len(scores) THEN call.top_k ELSE Len(scores)
     IN  \E order \in ArgSorts(scores) :
           searcher' = [searcher EXCEPT
                          !.pc = IF top_n = 0 THEN "done" ELSE "loop",
                          !.scores = scores,
                          !.docs = bm25.docs,
                          !.top_indices = IF top_n = 0 THEN <<>> ELSE TopIndices(order, top_n),
                          !.n = 1]
  /\ UNCHANGED <<metadata_store, bm25, chunk_ids, call, ret, rpc, indexer>>
  /\ UNCHANGED <<cvars, avars>>

\* one iteration of `for idx in top_indices`: self.chunk_ids[idx] is read
\* now, and raises IndexError when the list is too short
SearchLoop ==
  /\ SearcherAt("loop")
  /\ LET idx == searcher.top_indices[searcher.n]
         score == searcher.scores[idx]
         last == searcher.n = Len(searcher.top_indices)
     IN  IF score > 0 /\ idx > Len(chunk_ids)
         THEN searcher' = [searcher EXCEPT !.pc = "IndexError"]
         ELSE searcher' = [searcher EXCEPT
                             !.pc = IF last THEN "done" ELSE "loop",
                             !.n = @ + 1,
                             !.results = IF score > 0
                                         THEN Append(@, [id |-> chunk_ids[idx], score |-> score,
                                                         doc |-> searcher.docs[idx]])
                                         ELSE @]
  /\ UNCHANGED <<metadata_store, bm25, chunk_ids, call, ret, rpc, indexer>>
  /\ UNCHANGED <<cvars, avars>>

\* self.bm25 = BM25Okapi(tokenized_corpus)
IndexBuild ==
  /\ IndexerAt("build")
  /\ bm25' = BM25Okapi(indexer.chunks)
  /\ indexer' = [indexer EXCEPT !.pc = "ids"]
  /\ UNCHANGED <<metadata_store, chunk_ids, call, ret, rpc, searcher>>
  /\ UNCHANGED <<cvars, avars>>

\* self.chunk_ids = [chunk['chunk_id'] for chunk in chunks]
IndexIds ==
  /\ IndexerAt("ids")
  /\ chunk_ids' = indexer.chunks
  /\ indexer' = [indexer EXCEPT !.pc = "save"]
  /\ UNCHANGED <<metadata_store, bm25, call, ret, rpc, searcher>>
  /\ UNCHANGED <<cvars, avars>>

\* self.save_index()
IndexSave ==
  /\ IndexerAt("save")
  /\ disk' = [disk EXCEPT !.bm25_index_path = Some(chunk_ids)]
  /\ indexer' = [indexer EXCEPT !.pc = "done"]
  /\ UNCHANGED <<metadata_store, bm25, chunk_ids, call, ret, rpc, searcher>>
  /\ UNCHANGED <<cvars, pipeline, uuids, trace>>

\* an index over some chunks, a search of it and a rebuild over other chunks
InitThreads ==
  /\ ChunkerIdle
  /\ PipelineIdle
  /\ metadata_store = <<>>
  /\ \E old \in InjectiveSeqs(ChunkIds), new \in InjectiveSeqs(ChunkIds) \ {<<>>} :
       /\ KeywordIndexOver(old)
       /\ indexer = [pc |-> "build", chunks |-> new]
  /\ \E relevance \in Relevances(ChunkIds, {0, 1}) :
       call = Call("threads", <<"explain">>, MaxTopK, NoFilters, <<>>, relevance, 7, 1)
  /\ ret = NoReturn
  /\ rpc = "threads"
  /\ searcher = [pc |-> "check", scores |-> <<>>, docs |-> <<>>, top_indices |-> <<>>,
                 n |-> 0, results |-> <<>>]

NextThreads ==
  \/ SearchCheck \/ SearchScores \/ SearchLoop
  \/ IndexBuild \/ IndexIds \/ IndexSave

SpecThreads == InitThreads /\ [][NextThreads]_vars

\* ------------------------------------------------------------------------
\* Properties of KeywordRetriever
\* ------------------------------------------------------------------------
\* C14: a search that runs while index_chunks rebuilds the index sees one
\* index, the previous or the new one: every id it returns is the id of
\* the chunk whose text produced the score, and no lookup fails.
C14_SearchSeesOneIndex ==
  rpc = "threads" =>
    /\ searcher.pc # "IndexError"
    /\ \A n \in 1..Len(searcher.results) : searcher.results[n].id = searcher.results[n].doc

\* the indices of the documents a keyword search returned
ReturnedDocs == { ret.results[n].doc : n \in 1..Len(ret.results) }

\* C15: search(query, k) returns at most k pairs, every score above 0, in
\* non-increasing order of score, and leaves out no chunk of positive score
\* that scores higher than a returned one.
C15_TopPositiveScores ==
  Returned /\ call.op = "keyword_search" =>
    /\ Len(ret.results) <= call.top_k
    /\ \A n \in 1..Len(ret.results) : ret.results[n].score > 0
    /\ \A i, j \in 1..Len(ret.results) :
         i < j => ret.results[i].score >= ret.results[j].score
    /\ \A d \in 1..Len(CallScores) :
         d \notin ReturnedDocs /\ CallScores[d] > 0 =>
           \A n \in 1..Len(ret.results) : ret.results[n].score >= CallScores[d]

\* k results in an order that is not the order of the index, a chunk of
\* positive score cut off by k and a chunk of score 0 or less in the index
C15_Witness ==
  /\ Returned /\ call.op = "keyword_search"
  /\ Len(ret.results) = call.top_k
  /\ call.top_k = 2
  /\ ret.results[1].score > ret.results[2].score
  /\ ret.results[1].doc > ret.results[2].doc
  /\ \E d \in 1..Len(CallScores) : d \notin ReturnedDocs /\ CallScores[d] > 0

\* ------------------------------------------------------------------------
\* Retrieval over the queries
\* ------------------------------------------------------------------------
\* query_type = classifier.classify(query)
ClassifyCall ==
  /\ rpc = "call"
  /\ call.op = "classify"
  /\ ret' = [ret EXCEPT !.calls = @ + 1, !.query_type = Classify(call.query)]
  /\ rpc' = "done"
  /\ UNCHANGED <<metadata_store, bm25, chunk_ids, call, searcher, indexer>>
  /\ UNCHANGED <<cvars, avars>>

\* one chunk, held by the metadata store and by both indices
OneChunk ==
  /\ metadata_store \in Stores({1}, {<<"text", None>>})
  /\ KeywordIndexOver(<<1>>)

\* the text of no chunk has a word of the query
NoneRelevant == [id \in ChunkIds |-> 0]

EntityAlphabet == {"example", "examples", "ex", "q", "ind", " ", "2", "explain"}

\* retrieve for every query over the entity words
InitEntity ==
  /\ ChunkerIdle
  /\ PipelineIdle
  /\ OneChunk
  /\ \E query \in Queries(EntityAlphabet, MaxQueryLen), alpha \in {5, 7} :
       call = Call("retrieve", query, 1, NoFilters, <<1>>, NoneRelevant, alpha, 1)
  /\ ret = NoReturn
  /\ rpc = "call"
  /\ searcher = <<>>
  /\ indexer = <<>>

SpecEntity == InitEntity /\ [][NextRetrieve]_vars

ClassifyAlphabet == {"example", "examples", "exercise", "ex.", "what is", "formula", " ", "2", "-"}

\* classify for every query over numeric references and family keywords
InitClassify ==
  /\ ChunkerIdle
  /\ PipelineIdle
  /\ OneChunk
  /\ \E query \in Queries(ClassifyAlphabet, MaxQueryLen) :
       call = Call("classify", query, 1, NoFilters, <<1>>, NoneRelevant, 7, 1)
  /\ ret = NoReturn
  /\ rpc = "call"
  /\ searcher = <<>>
  /\ indexer = <<>>

NextClassify == ClassifyCall

SpecClassify == InitClassify /\ [][NextClassify]_vars

\* the kinds of the stored chunks: examples 2 and 3, a definition
SearchKinds == {<<"example", "2">>, <<"example", "3">>, <<"definition", None>>}

\* the queries of the pipeline: a range, a single number with and without
\* a chunk of that label, a content kind with and without chunks, no kind;
\* each alone and behind a keyword of another family
SearchQueries ==
  { pre \o body :
      pre \in {<<>>, <<"what is", " ">>},
      body \in {<<"examples", " ", "2", "-", "3">>, <<"example", " ", "3", " ", "to", " ", "2">>,
                <<"example", " ", "2">>, <<"example", " ", "4">>,
                <<"example">>, <<"formula">>, <<"explain">>} }

\* lexical scores with no two alike: the chunks of hits score above zero,
\* the others below, so that argsort has one outcome
DistinctRelevances ==
  { [id \in ChunkIds |-> IF id \in hits THEN id ELSE 0 - id] : hits \in SUBSET ChunkIds }

\* search, twice in a row, over stores that agree on the stored chunks;
\* the chunk ids are numbered by descending similarity to the query
InitSearch ==
  /\ ChunkerIdle
  /\ PipelineIdle
  /\ metadata_store \in Stores(ChunkIds, SearchKinds)
  /\ KeywordIndexOver(Ascending(ChunkIds))
  /\ \E relevance \in DistinctRelevances,
        query \in SearchQueries, top_k \in 1..MaxTopK :
       call = Call("search", query, top_k, NoFilters, Ascending(ChunkIds), relevance, 7, 2)
  /\ ret = NoReturn
  /\ rpc = "call"
  /\ searcher = <<>>
  /\ indexer = <<>>

NextSearch == SearchCall

SpecSearch == InitSearch /\ [][NextSearch]_vars

\* ------------------------------------------------------------------------
\* retrieve with metadata filters
\* ------------------------------------------------------------------------
\* a stored chunk dictionary of a class level and a chapter
ScopedChunk(ct, ex, cl, ch) ==
  [ChunkDict(ct, ex) EXCEPT !.class_level = cl, !.chapter_number = ch]

\* the metadata stores over the chunk ids with chunks of the given kinds
\* <<content_type, example_number, class_level, chapter_number>>
ScopedStores(ids, kinds) ==
  { [id \in ids |-> ScopedChunk(kind[id][1], kind[id][2], kind[id][3], kind[id][4])] :
      kind \in [ids -> kinds] }

\* a sequence back to front
Reverse(s) == [n \in 1..Len(s) |-> s[Len(s) + 1 - n]]

\* the kinds of the stored chunks: an example and a definition of class 11,
\* a definition of class 12
FilterKinds ==
  {<<"example", "2", "11", 1>>, <<"definition", None, "11", 1>>, <<"definition", None, "12", 2>>}

\* the filters of the calls: none, one key, several keys
FilterChoices ==
  {NoFilters,
   [NoFilters EXCEPT !.content_type = "definition"],
   [NoFilters EXCEPT !.example_number = "2"],
   [NoFilters EXCEPT !.class_level = "12"],
   [NoFilters EXCEPT !.content_type = "definition", !.class_level = "12",
                     !.chapter_number = 2]}

\* retrieve, twice, with every filter over every store
InitFilter ==
  /\ ChunkerIdle
  /\ PipelineIdle
  /\ metadata_store \in ScopedStores(ChunkIds, FilterKinds)
  /\ KeywordIndexOver(Ascending(ChunkIds))
  /\ \E similar \in {Ascending(ChunkIds), Reverse(Ascending(ChunkIds))},
        relevance \in DistinctRelevances, top_k \in 1..MaxTopK,
        query \in {<<"explain">>, <<"example", " ", "2">>}, filters \in FilterChoices :
       call = Call("retrieve", query, top_k, filters, similar, relevance, 7, 2)
  /\ ret = NoReturn
  /\ rpc = "call"
  /\ searcher = <<>>
  /\ indexer = <<>>

SpecFilter == InitFilter /\ [][NextRetrieve]_vars

\* ------------------------------------------------------------------------
\* search with a class level and a chapter
\* ------------------------------------------------------------------------
\* the queries of the intents: range, single number, by kind, general
ScopeQueries ==
  {<<"examples", " ", "2", "-", "3">>, <<"example", " ", "2">>, <<"example", " ", "4">>,
   <<"what is", " ", "explain">>, <<"explain">>}

\* the class_level and chapter_number arguments: one of them or both
Scopes == {<<"12", 0>>, <<"", 2>>, <<"12", 2>>}

InitScope ==
  /\ ChunkerIdle
  /\ PipelineIdle
  /\ metadata_store \in ScopedStores(ChunkIds, FilterKinds)
  /\ KeywordIndexOver(Ascending(ChunkIds))
  /\ \E relevance \in DistinctRelevances, query \in ScopeQueries,
        top_k \in 1..MaxTopK, scope \in Scopes :
       call = [Call("search", query, top_k, NoFilters, Ascending(ChunkIds), relevance, 7, 1)
                 EXCEPT !.class_level = scope[1], !.chapter_number = scope[2]]
  /\ ret = NoReturn
  /\ rpc = "call"
  /\ searcher = <<>>
  /\ indexer = <<>>

SpecScope == InitScope /\ [][NextSearch]_vars

\* ------------------------------------------------------------------------
\* Properties of the query handling
\* ------------------------------------------------------------------------
\* the word at token i begins there: no letters stand right before it
WordStart(q, i) == i = 1 \/ q[i - 1] \in {" "} \cup NumberTokens

NumberedWords == {"example", "exercise", "question", "problem"}

\* a word of the set stands in the query as a word, a number after it
WordWithNumber(q, words) ==
  \E i \in 1..Len(q) :
    q[i] \in words /\ WordStart(q, i) /\ NumberAt(q, SkipSpaces(q, i + 1))

\* the query names a numbered example, exercise, question or problem
NamesNumbered(q) == WordWithNumber(q, NumberedWords)

\* the same, abbreviations and the plural counted in
MentionsNumbered(q) == WordWithNumber(q, NumberedWords \cup {"examples", "ex", "ex.", "q"})

\* C16: retrieve fuses with the entity weight when the query names a
\* numbered example, exercise, question or problem, and with the configured
\* weight for every query that names none (none even by an abbreviation).
C16_EntityWeight ==
  Returned /\ call.op = "retrieve" =>
    /\ NamesNumbered(call.query) => ret.current_alpha = EntityAlpha
    /\ ~MentionsNumbered(call.query) => ret.current_alpha = call.alpha

\* the keywords of other families that are added to a query
AddedKeywords == {"what is", "formula"}

\* the query holds an explicit numeric reference
HasReference(q) == NamesNumbered(q) \/ RangeAt(q) # {}

\* C20: when the query holds a numeric reference (example, exercise,
\* question or problem with a number, or an example range) the query type
\* does not change when a keyword of another family is put before it; a
\* query with no reference and no family keyword is of type concept.
C20_ReferenceDecides ==
  Returned /\ call.op = "classify" =>
    /\ HasReference(call.query) =>
         \A kw \in AddedKeywords : Classify(<<kw, " ">> \o call.query) = ret.query_type
    /\ /\ ~MentionsNumbered(call.query)
       /\ RangeAt(call.query) = {}
       /\ \A n \in 1..Len(QueryTypes) : ~HasKeyword(call.query, QueryTypes[n])
       => ret.query_type = "concept"

\* ------------------------------------------------------------------------
\* Properties of RetrievalPipeline.search
\* ------------------------------------------------------------------------
Searched == Returned /\ call.op = "search"

\* the example labels of the results
ResultLabels == { ret.results[n].chunk.example_number : n \in 1..Len(ret.results) }

\* the numbers of the range of the query
RangeLabels == { ExtractExampleRange(call.query)[n] : n \in 1..Len(ExtractExampleRange(call.query)) }

\* C17: for a query with an example range, when a chunk with a label of the
\* range is among the results, every result has a label of the range and
\* there are at most k results.
C17_RangeOnlyLabeled ==
  Searched /\ RangeAt(call.query) # {} /\ ResultLabels \cap RangeLabels # {} =>
    /\ ResultLabels \subseteq RangeLabels
    /\ Len(ret.results) <= call.top_k

\* the chunk ids retrieve gives for the query without any filter, for some
\* outcome of argsort
GeneralIds ==
  { IdsOf(Retrieve(WithOrder(call, order), metadata_store, call.query, call.top_k,
                   NoFilters).results) : order \in ArgSorts(CallScores) }

\* the query names one example number and no range
SingleNumber == ExtractExampleNumber(call.query) # None /\ RangeAt(call.query) = {}

\* a stored chunk has the label the query names
LabelStored ==
  \E id \in DOMAIN metadata_store :
    metadata_store[id].example_number = ExtractExampleNumber(call.query)

\* C18: for a query naming a single example number N the results are the
\* exact match, all labeled N, when there is one (here: when a chunk
\* labeled N is stored), and otherwise the results of hybrid retrieval
\* without the example number; they are never empty for want of a label N.
C18_SingleExampleFallback ==
  Searched /\ SingleNumber =>
    /\ ret.results # <<>>
    /\ LabelStored => ResultLabels = {ExtractExampleNumber(call.query)}
    /\ ~LabelStored => IdsOf(ret.results) \in GeneralIds

\* no chunk is labeled 4: the query for example 4 got chunks of other labels
C18_Witness ==
  /\ Searched /\ SingleNumber /\ ~LabelStored
  /\ Len(ret.results) >= 2
  /\ "2" \in ResultLabels

\* the query is answered by content kind: no number, no range
KindQuery ==
  /\ ret.query_type \in {"definition", "theorem", "formula", "example"}
  /\ ExtractExampleNumber(call.query) = None
  /\ RangeAt(call.query) = {}

\* the ids the search by kind gave, then the ids of general not among them
Merged(general) ==
  LET have == IdsOf(SubSeq(ret.results, 1, ret.yield))
  IN  Take(have \o SelectSeq(general, LAMBDA id : \A n \in 1..Len(have) : have[n] # id),
           call.top_k)

\* C19: for a query by content kind without a number, whenever the search
\* filtered by kind gave fewer than k/2 results (2 * yield < k) the results
\* are those followed by the unfiltered results not yet present, up to k;
\* no chunk id is there twice and there are at most k results.
C19_BackfillBelowHalf ==
  Searched /\ KindQuery =>
    /\ 2 * ret.yield < call.top_k =>
         \E general \in GeneralIds : IdsOf(ret.results) = Merged(general)
    /\ \A i, j \in 1..Len(ret.results) :
         i # j => ret.results[i].chunk_id # ret.results[j].chunk_id
    /\ Len(ret.results) <= call.top_k

\* ------------------------------------------------------------------------
\* QueryClassifier.extract_example_range as a call
\* ------------------------------------------------------------------------
MaxDigits == 2

\* ex_range = self.classifier.extract_example_range(query)
RangeCall ==
  /\ rpc = "call"
  /\ call.op = "extract_example_range"
  /\ ret' = [ret EXCEPT !.calls = @ + 1, !.results = ExtractExampleRange(call.query)]
  /\ rpc' = "done"
  /\ UNCHANGED <<metadata_store, bm25, chunk_ids, call, searcher, indexer>>
  /\ UNCHANGED <<cvars, avars>>

\* the numbers of one to MaxDigits digits, as token sequences
Numerals == UNION { [1..n -> NumberTokens] : n \in 1..MaxDigits }

\* the range queries: example(s) a to b, example(s) a-b
RangeQueries ==
  { <<word, " ">> \o a \o sep \o b :
      word \in {"example", "examples"}, a \in Numerals,
      sep \in {<<"-">>, <<" ", "to", " ">>}, b \in Numerals }

InitRange ==
  /\ ChunkerIdle
  /\ PipelineIdle
  /\ OneChunk
  /\ \E query \in RangeQueries :
       call = Call("extract_example_range", query, 1, NoFilters, <<1>>, NoneRelevant, 7, 1)
  /\ ret = NoReturn
  /\ rpc = "call"
  /\ searcher = <<>>
  /\ indexer = <<>>

NextRange == RangeCall

SpecRange == InitRange /\ [][NextRange]_vars

\* the first bound of the range query of the call
FirstBound == NumVal(call.query, 3, DigitsEnd(call.query, 3))

\* the second bound: the digits the query ends with
SecondBound ==
  LET q == call.query
      i == Least({ n \in 1..Len(q) : \A o \in n..Len(q) : NumberAt(q, o) })
  IN  NumVal(q, i, Len(q) + 1)

LowBound == IF FirstBound < SecondBound THEN FirstBound ELSE SecondBound

HighBound == IF FirstBound < SecondBound THEN SecondBound ELSE FirstBound

\* C21: for every pair of bounds the range is the consecutive numbers from
\* the lower bound up, to the higher bound when that makes at most 10
\* numbers, and otherwise at most 10 numbers.
C21_RangeAtMostTen ==
  Returned /\ call.op = "extract_example_range" =>
    /\ ret.results # <<>>
    /\ \A n \in 1..Len(ret.results) : ret.results[n] = ToString(LowBound + n - 1)
    /\ HighBound - LowBound + 1 <= 10 => Len(ret.results) = HighBound - LowBound + 1
    /\ HighBound - LowBound + 1 > 10 => Len(ret.results) <= 10

\* ------------------------------------------------------------------------
\* Chapter context of the chunks
\* ------------------------------------------------------------------------
\* the number the chapter header at token i of page p announces
ChapterNumberAt(p, i) == IF pages[p].text[i] = "CH1" THEN 1 ELSE 2

\* the chapter headers that stand before the element e
HeadersBefore(e) ==
  { h \in [p : 1..Len(pages), i : 1..MaxMetaDocLen] :
      h.i <= Len(pages[h.p].text) /\ ChapterAt(h.p, h.i) /\ Before(h, e) }

\* the chapter in force where the element e stands: that of the last
\* chapter header before it, 0 before the first one
ChapterInForce(e) ==
  IF HeadersBefore(e) = {} THEN 0
  ELSE LET last == CHOOSE h \in HeadersBefore(e) :
                     \A g \in HeadersBefore(e) : g = h \/ Before(g, h)
       IN  ChapterNumberAt(last.p, last.i)

\* the chapters in force over the page text of a chunk, the chapter headers
\* themselves left out
ChaptersOfText(c) ==
  { ChapterInForce(c.text[n]) :
      n \in { m \in 1..Len(c.text) : c.text[m].p # 0 /\ ~ChapterAt(c.text[m].p, c.text[m].i) } }

\* C22: a chunk whose text was all gathered under one chapter (all of it
\* before, or all of it after, each chapter header) carries the number of
\* that chapter, whenever the chunk is created.
C22_ChapterOfContent ==
  \A k \in 1..Len(chunks) :
    Cardinality(ChaptersOfText(chunks[k])) = 1 =>
      chunks[k].chapter_number \in ChaptersOfText(chunks[k])

\* ------------------------------------------------------------------------
\* Continuation headers of the parts
\* ------------------------------------------------------------------------
\* the text begins, after white space, with the label of the collection
LabelAtStart(buffer, text) ==
  LStrip(text) # <<>> /\ LStrip(text)[1].t = LabelToken(buffer)

\* C23: of the parts of a split collection the first has no continuation
\* header; the N-th part, N >= 2, has the header of part N unless its text
\* begins with the label of the collection, and then it has none; every
\* part carries the label of the collection in its metadata.
C23_ContinuationHeaders ==
  pc = "returned" /\ Len(chunks) >= 2 =>
    /\ chunks[1].header = 0
    /\ \A n \in 2..Len(chunks) :
         chunks[n].header = IF LabelAtStart(exercise_buffer, chunks[n].text) THEN 0 ELSE n
    /\ \A n \in 1..Len(chunks) :
         exercise_buffer.number =
           IF exercise_buffer.type = "example" THEN chunks[n].example_number
           ELSE chunks[n].exercise_number

\* ------------------------------------------------------------------------
\* Linking of the cited media to the parts of a collection
\* ------------------------------------------------------------------------
\* the pages the text of collection cid was gathered from
GatheredPages(cid) ==
  UNION { { chunks[k].text[n].p : n \in 1..Len(chunks[k].text) } \ {0} :
            k \in { j \in 1..Len(chunks) : chunks[j].cid = cid } }

\* C24: a chunk of a collection that cites a figure or a table holds every
\* matching image and table of every page the collection was gathered
\* from, whichever page that is and however the collection was closed.
C24_CitedMediaLinked ==
  \A k \in 1..Len(chunks) :
    chunks[k].cid # 0 =>
      \A n \in 1..Len(chunks[k].text), p \in GatheredPages(chunks[k].cid) :
        /\ \A j \in 1..Len(pages[p].images) :
             FigMatches(chunks[k].text[n].t, pages[p].images[j].image_id)
               => HasImage(chunks[k].images, pages[p].images[j].image_id)
        /\ \A j \in 1..Len(pages[p].tables) :
             TableMatches(chunks[k].text[n].t, pages[p].tables[j].table_id)
               => HasTable(chunks[k].tables, pages[p].tables[j].table_id)

\* ------------------------------------------------------------------------
\* Properties of retrieve with filters
\* ------------------------------------------------------------------------
\* the 1-based rank of a chunk id in a list of ids, 0 when it is absent
RankIn(ids, id) ==
  IF \E n \in 1..Len(ids) : ids[n] = id
  THEN Least({ n \in 1..Len(ids) : ids[n] = id })
  ELSE 0

\* weight / (rank_constant + rank) as a fraction in tenths, 0 for rank 0
Contribution(weight, rank) ==
  IF rank = 0 THEN [num |-> 0, den |-> 1]
  ELSE [num |-> weight, den |-> rank_constant + rank]

\* the score the two ranks of a chunk id give
ExpectedScore(id) ==
  LET v == Contribution(ret.current_alpha, RankIn(ret.vector_results, id))
      l == Contribution(10 - ret.current_alpha, RankIn(ret.keyword_results, id))
  IN  [num |-> v.num * l.den + l.num * v.den, den |-> v.den * l.den]

\* C25: the fused score of every returned chunk is
\* alpha / (rank_constant + r_v) + (1 - alpha) / (rank_constant + r_l) for
\* its 1-based ranks r_v and r_l in the vector and the lexical candidates,
\* a list that does not hold the chunk adding 0.
C25_FusedScoreFormula ==
  Returned /\ call.op = "retrieve" =>
    \A n \in 1..Len(ret.results) :
      ScoreEq(ret.results[n].score, ExpectedScore(ret.results[n].chunk_id))

\* a returned chunk of different ranks in the two lists, found by a call
\* with a filter, a lexical candidate ahead of it that is not returned
C25_Witness ==
  /\ Returned /\ call.op = "retrieve" /\ HasFilters(call.filters)
  /\ \E n \in 1..Len(ret.results) :
       LET id == ret.results[n].chunk_id
           rv == RankIn(ret.vector_results, id)
           rl == RankIn(ret.keyword_results, id)
       IN  /\ rv # 0 /\ rl > 1 /\ rv # rl
           /\ \A m \in 1..Len(ret.results) :
                ret.results[m].chunk_id # ret.keyword_results[1]

\* the chunk meets every predicate of the filters
Satisfies(chunk, filters) ==
  /\ filters.content_type # "" => chunk.content_type = filters.content_type
  /\ filters.example_number # "" => chunk.example_number = filters.example_number
  /\ filters.class_level # "" => chunk.class_level = filters.class_level
  /\ filters.chapter_number # 0 => chunk.chapter_number = filters.chapter_number

\* C26: every result of retrieve called with filters meets every predicate
\* of the filters, the chunks that only the keyword search found too.
C26_ResultsSatisfyFilters ==
  Returned /\ call.op = "retrieve" /\ HasFilters(call.filters) =>
    \A n \in 1..Len(ret.results) : Satisfies(ret.results[n].chunk, call.filters)

\* the keyword search found a chunk that fails the filters, first of its
\* list, and a chunk that meets them, which is returned
C26_Witness ==
  /\ Returned /\ call.op = "retrieve" /\ HasFilters(call.filters)
  /\ ret.results # <<>>
  /\ Len(ret.keyword_results) >= 2
  /\ ~Satisfies(GetChunk(metadata_store, ret.keyword_results[1]), call.filters)
  /\ \E n \in 1..Len(ret.results) : ret.results[n].chunk_id = ret.keyword_results[2]

\* ------------------------------------------------------------------------
\* Order and scope of the results of RetrievalPipeline.search
\* ------------------------------------------------------------------------
\* C27: every list search returns is in descending order of score: no
\* result has a smaller score than a result after it.
C27_SearchDescending ==
  Searched =>
    \A i, j \in 1..Len(ret.results) :
      i < j => ~ScoreLess(ret.results[i].score, ret.results[j].score)

\* C28: every result of search called with a class level and/or a chapter
\* number is a chunk of that class level and of that chapter, whatever the
\* intent of the query.
C28_ResultsWithinScope ==
  Searched /\ (call.class_level # "" \/ call.chapter_number # 0) =>
    \A n \in 1..Len(ret.results) :
      /\ call.class_level # "" => ret.results[n].chunk.class_level = call.class_level
      /\ call.chapter_number # 0 => ret.results[n].chunk.chapter_number = call.chapter_number

\* ------------------------------------------------------------------------
\* MathRAGPipeline: index_document, delete_document, query, get_stats and
\* list_documents over the persisted stores
\* ------------------------------------------------------------------------

\* how many chunk ids uuid4 gives out in a run
MaxUuids == 4

\* the most chunks the chunker makes of one document
MaxNewChunks == 2

\* pdf_path.stem of the documents
DocumentIds == {"a", "b"}

\* the members of a list
Members(s) == { s[n] : n \in 1..Len(s) }

\* the chunk ids of a list of chunk dicts, in order
ChunkIdsOf(data) == [n \in 1..Len(data) |-> data[n].chunk_id]

\* MetadataStore(path) raises: json.load of a file that is not valid JSON
LoadRaises == disk.metadata_db_path.broken

\* MetadataStore._load: the file, or {} without one
MetadataLoad == IF disk.metadata_db_path.present THEN disk.metadata_db_path.value ELSE <<>>

\* KeywordRetriever.__init__: chunk_ids = [], replaced by the file if it exists
KeywordLoad == IF disk.bm25_index_path.present THEN disk.bm25_index_path.value ELSE <<>>

\* the chunks chunk_document makes: n chunks with new uuids; loaded says
\* that content_type of the stored dict is a ContentType member
NewChunks(document_id, n) ==
  [k \in 1..n |-> [chunk_id |-> uuids + k, document_id |-> document_id,
                   loaded |-> FALSE]]

\* ContentChunk.from_dict on the stored dicts of the chunks a search returns
FromDict(data, hits) ==
  [n \in 1..Len(data) |->
     IF data[n].chunk_id \in hits THEN [data[n] EXCEPT !.loaded = TRUE] ELSE data[n]]

\* json.dump accepts the dicts: none holds a ContentType member
Serializable(data) == \A n \in 1..Len(data) : ~data[n].loaded

\* MetadataStore.save: the file after json.dump of the dicts
Saved(data) == IF Serializable(data) THEN Some(data) ELSE Truncated

\* MetadataStore.delete_document: the ids of the chunks of the document
DeletedIds(data, document_id) ==
  { data[n].chunk_id : n \in { m \in 1..Len(data) : data[m].document_id = document_id } }

\* MetadataStore.delete_document: the chunks of the other documents
NewData(data, document_id) ==
  LET Other(chunk) == chunk.document_id # document_id
  IN SelectSeq(data, Other)

\* FAISSVectorStore.remove_by_ids
RemoveByIds(id_map, ids) ==
  LET Keep(chunk_id) == chunk_id \notin ids
      kept == SelectSeq(id_map, Keep)
  IN IF Len(kept) = Len(id_map) THEN id_map
     ELSE IF kept = <<>> THEN <<>>
     ELSE kept

\* the outcome of a call: returned (ok says what) or raised an exception
Outcome(op, ok, raised, searched) ==
  [trace EXCEPT !.op = op, !.ok = ok, !.raised = raised, !.searched = searched]

\* a new MathRAGPipeline over the same files
NewPipeline ==
  /\ pipeline' = FreshPipeline
  /\ trace' = [NoTrace EXCEPT !.op = "new"]
  /\ UNCHANGED <<disk, uuids, cvars, rvars>>

\* index_document(pdf_path, class_level), the chunker making n chunks
IndexDocument(document_id, n) ==
  /\ uuids + n <= MaxUuids
  /\ LET vector_store == IF pipeline.vector_store.present THEN pipeline.vector_store
                         ELSE Some(<<>>)
         store == IF pipeline.metadata_store.present THEN pipeline.metadata_store
                  ELSE Some(MetadataLoad)
         new_chunks == NewChunks(document_id, n)
         id_map == vector_store.value \o ChunkIdsOf(new_chunks)
         data == store.value \o new_chunks
     IN IF ~pipeline.metadata_store.present /\ LoadRaises
        THEN /\ pipeline' = [pipeline EXCEPT !.vector_store = vector_store]
             /\ trace' = Outcome("index_document", FALSE, "JSONDecodeError", <<>>)
             /\ UNCHANGED <<disk, uuids>>
        ELSE IF n = 0
        THEN /\ pipeline' = [pipeline EXCEPT !.vector_store = vector_store,
                                             !.metadata_store = store]
             /\ trace' = [Outcome("index_document", TRUE, "", <<>>)
                            EXCEPT !.indexed = TRUE, !.warm = pipeline.retriever.present]
             /\ UNCHANGED <<disk, uuids>>
        ELSE /\ pipeline' = [pipeline EXCEPT !.vector_store = Some(id_map),
                                             !.metadata_store = Some(data)]
             /\ disk' = [vector_db_path |-> Some(id_map),
                         metadata_db_path |-> Saved(data),
                         bm25_index_path |-> Some(ChunkIdsOf(data))]
             /\ uuids' = uuids + n
             /\ trace' = IF Serializable(data)
                         THEN [Outcome("index_document", TRUE, "", <<>>)
                                 EXCEPT !.indexed = TRUE, !.warm = pipeline.retriever.present]
                         ELSE [Outcome("index_document", FALSE, "TypeError", <<>>)
                                 EXCEPT !.warm = pipeline.retriever.present]
  /\ UNCHANGED <<cvars, rvars>>

\* delete_document(document_id)
DeleteDocument(document_id) ==
  /\ LET store == IF pipeline.metadata_store.present THEN pipeline.metadata_store
                  ELSE Some(MetadataLoad)
         vector_store == IF pipeline.vector_store.present THEN pipeline.vector_store
                         ELSE disk.vector_db_path
         deleted_chunk_ids == DeletedIds(store.value, document_id)
         data == NewData(store.value, document_id)
         id_map == RemoveByIds(vector_store.value, deleted_chunk_ids)
     IN IF ~pipeline.metadata_store.present /\ LoadRaises
        THEN /\ trace' = Outcome("delete_document", FALSE, "JSONDecodeError", <<>>)
             /\ UNCHANGED <<pipeline, disk>>
        ELSE IF ~vector_store.present
        THEN /\ pipeline' = [pipeline EXCEPT !.metadata_store = store]
             /\ trace' = Outcome("delete_document", FALSE, "", <<>>)
             /\ UNCHANGED disk
        ELSE IF deleted_chunk_ids = {}
        THEN /\ pipeline' = [pipeline EXCEPT !.metadata_store = store,
                                             !.vector_store = vector_store]
             /\ trace' = Outcome("delete_document", FALSE, "", <<>>)
             /\ UNCHANGED disk
        ELSE IF ~Serializable(data)
        THEN /\ pipeline' = [pipeline EXCEPT !.metadata_store = Some(data),
                                             !.vector_store = vector_store]
             /\ disk' = [disk EXCEPT !.metadata_db_path = Truncated]
             /\ trace' = Outcome("delete_document", FALSE, "TypeError", <<>>)
        ELSE /\ pipeline' = [pipeline EXCEPT !.metadata_store = Some(data),
                                             !.vector_store = Some(id_map)]
             /\ disk' = [disk EXCEPT !.metadata_db_path = Some(data),
                                     !.vector_db_path = Some(id_map)]
             /\ trace' = Outcome("delete_document", TRUE, "", <<>>)
  /\ UNCHANGED <<uuids, cvars, rvars>>

\* the chunks a search can return: held by the metadata store, and found
\* by the vector store or by the keyword index of the retriever
Findable(vector_store, store, retriever) ==
  Members(ChunkIdsOf(store.value))
    \cap (Members(vector_store.value) \cup Members(retriever.value))

\* query(query, class_level, chapter_number, top_k): _init_query_components,
\* then the search of the retriever, which returns the chunks hits
Query(hits) ==
  /\ LET vector_store == IF pipeline.vector_store.present THEN pipeline.vector_store
                         ELSE disk.vector_db_path
         store == IF pipeline.metadata_store.present THEN pipeline.metadata_store
                  ELSE Some(MetadataLoad)
         retriever == IF pipeline.retriever.present THEN pipeline.retriever
                      ELSE Some(KeywordLoad)
     IN IF ~vector_store.present
        THEN /\ hits = {}
             /\ UNCHANGED pipeline
             /\ trace' = Outcome("query", FALSE, "ValueError", <<>>)
        ELSE IF ~pipeline.metadata_store.present /\ LoadRaises
        THEN /\ hits = {}
             /\ pipeline' = [pipeline EXCEPT !.vector_store = vector_store]
             /\ trace' = Outcome("query", FALSE, "JSONDecodeError", <<>>)
        ELSE /\ hits \subseteq Findable(vector_store, store, retriever)
             /\ pipeline' = [vector_store |-> vector_store,
                             metadata_store |-> Some(FromDict(store.value, hits)),
                             retriever |-> retriever]
             /\ trace' = Outcome("query", TRUE, "", retriever.value)
  /\ UNCHANGED <<disk, uuids, cvars, rvars>>

\* get_stats()
GetStats ==
  /\ IF ~pipeline.metadata_store.present /\ LoadRaises
     THEN /\ trace' = Outcome("get_stats", FALSE, "JSONDecodeError", <<>>)
          /\ UNCHANGED pipeline
     ELSE /\ pipeline' =
               [pipeline EXCEPT
                  !.metadata_store = IF @.present THEN @ ELSE Some(MetadataLoad),
                  !.vector_store = IF @.present THEN @ ELSE disk.vector_db_path]
          /\ trace' = Outcome("get_stats", TRUE, "", <<>>)
  /\ UNCHANGED <<disk, uuids, cvars, rvars>>

\* list_documents()
ListDocuments ==
  /\ IF ~pipeline.metadata_store.present /\ LoadRaises
     THEN /\ trace' = Outcome("list_documents", FALSE, "JSONDecodeError", <<>>)
          /\ UNCHANGED pipeline
     ELSE /\ pipeline' =
               [pipeline EXCEPT
                  !.metadata_store = IF @.present THEN @ ELSE Some(MetadataLoad)]
          /\ trace' = Outcome("list_documents", TRUE, "", <<>>)
  /\ UNCHANGED <<disk, uuids, cvars, rvars>>

InitPipeline ==
  /\ ChunkerIdle
  /\ RetrievalIdle
  /\ AppIdle

NextPipeline ==
  \/ NewPipeline
  \/ \E document_id \in DocumentIds, n \in 0..MaxNewChunks : IndexDocument(document_id, n)
  \/ \E document_id \in DocumentIds : DeleteDocument(document_id)
  \/ \E hits \in SUBSET (1..MaxUuids) : Query(hits)
  \/ GetStats
  \/ ListDocuments

SpecPipeline == InitPipeline /\ [][NextPipeline]_vars

\* the chunk ids of the persisted metadata store, vector store, keyword index
PersistedIds == Members(ChunkIdsOf(MetadataLoad))

VectorIds == Members(disk.vector_db_path.value)

KeywordIds == Members(KeywordLoad)

\* the chunk ids the metadata store of the instance holds
StoredIds == Members(ChunkIdsOf(pipeline.metadata_store.value))

\* C29: after every completed index_document or delete_document, on one
\* pipeline instance or on new ones over the same files, the metadata
\* store, the vector store and the keyword index hold the same chunk ids.
C29_StoresAgree ==
  trace.op \in {"index_document", "delete_document"} /\ trace.raised = "" =>
    /\ ~disk.metadata_db_path.broken
    /\ PersistedIds = VectorIds
    /\ PersistedIds = KeywordIds

\* C30: a query made on an instance after index_document completed on it
\* searches a keyword index that holds every stored chunk, also when the
\* retriever was made by an earlier query.
C30_QuerySeesAllChunks ==
  trace.op = "query" /\ trace.ok /\ trace.indexed =>
    StoredIds \subseteq Members(trace.searched)

====
